---------------------------- MODULE Spec2Model ----------------------------
(***************************************************************************)
(* A model of the maggrab ingestion daemon: the durable store              *)
(* (server/storage.ts, FileStorage) and the scheduler (server/scraper.ts,  *)
(* Scraper).                                                               *)
(*                                                                         *)
(* The module holds several specifications over one set of variables:      *)
(*   SpecFile  - one collection file, its backups and its temporary file:  *)
(*               writeJSON step by step, readJSON with restoreFromBackup,  *)
(*               crashes, file-system errors and outside corruption.       *)
(*   Spec      - the daemon at work over two feeds: tick callbacks, manual *)
(*               scrape requests, feed removal and stop(), with every      *)
(*               asynchronous call advancing from await to await.          *)
(*   SpecStart - start() after a downtime: recoverSchedule, then           *)
(*               scheduleFeed for every feed.                              *)
(*   SpecCap   - one feed and a burst of manual scrape requests.           *)
(*   SpecPipe  - the item pipeline of one run: the feed fetch and the      *)
(*               article fetches with their retries, the records of the    *)
(*               items, and the submission to the download manager.        *)
(*   SpecStore - calls of the store that run at the same time.             *)
(*   SpecRetain  - inserts into one collection up to and beyond its cap.   *)
(*   SpecCleanup - cleanupOldData over the four collections.               *)
(*   SpecLegacy  - a processed file in the old array form: isProcessed,    *)
(*               markProcessed and the cleanup over its migration.         *)
(*   SpecClear   - clearEntries over filled collections.                   *)
(*   SpecLife    - start(), stop() and the tick of one feed, with the      *)
(*               heartbeat and cleanup timers.                             *)
(*   SpecBackup  - writeJSON of one file over a running clock, with        *)
(*               errors inside createBackup.                               *)
(*   SpecTwoRuns - two runs of the item pipeline at the same time, with    *)
(*               the isProcessed partition and one shared connection.      *)
(*   SpecRecover - start() after a downtime with the tick jobs firing      *)
(*               while the catch-up runs are in flight.                    *)
(*   SpecSkip    - the ticks of two feeds while the runs of other feeds    *)
(*               hold the slots of the running count.                      *)
(*   SpecTerminating - Spec with weak fairness on the steps of the calls   *)
(*               in progress (every awaited call returns or throws).       *)
(*   SpecSuccessive - the runs of one feed one after the other over the    *)
(*               same listing.                                             *)
(* Each specification leaves unchanged the variables of the parts it does  *)
(* not model.                                                              *)
(*                                                                         *)
(* Time is counted in minutes: Date.now() is `now`, and                    *)
(* feed.interval * 60 * 1000 ms is feed.interval units of `now`.           *)
(***************************************************************************)
EXTENDS Integers, Sequences, FiniteSets, Bags, TLC

VARIABLES
  now,          \* Date.now()
  \* ---- one collection file of the store (SpecFile)
  initialized,  \* FileStorage.initialized
  live,         \* content of the collection's live file
  backups,      \* backup files of the collection: timestamp -> content
  tmp,          \* content of the writer's temporary file
  wpc,          \* where the writeJSON in progress stands
  wdata,        \* the value that writeJSON is writing
  wlast,        \* how the last writeJSON ended
  preWrite,     \* the live content when the last writeJSON began
  rd,           \* the outcome of the readJSON that has just returned
  envBudget,    \* outside events (corruption, crashes, errors) still allowed
  \* ---- the scheduler and the collections it uses (Spec, SpecStart, SpecCap)
  feedsFile,        \* feeds.json: feed id -> feed record
  scheduleFile,     \* schedule.json: feed id -> nextRun of its ScheduleEntry
  settingsFile,     \* settings.json
  cronJobs,         \* Scraper.cronJobs: the feed ids that have a job in the map
  strayJobs,        \* feed id -> number of running tick jobs that are not in the map
  runningFeeds,     \* Scraper.runningFeeds
  runningFeedCount, \* the module-level runningFeedCount
  isRunning,        \* Scraper.isRunning
  timers,           \* heartbeatTask and cleanupTask, and the cron tasks that run
  tasks,            \* the asynchronous calls in progress, a bag of task records
  evLeft,           \* outside calls (requests, tick fires, start, stop) still allowed
  failLeft,         \* store write failures still allowed
  ev,               \* what the last step did (history, for the claims)
  lastSet,          \* feed id -> the nextRun last written for that feed (history)
  final,            \* feed id -> the status the feed's last finished run ended with (history)
  unscheduled,      \* the feed ids whose removal has completed (history)
  startLog,         \* the catch-up bookkeeping of the last start() (history)
  \* ---- the item pipeline, its collections and the download manager
  processedFile,    \* processed.json: the ProcessedUrl records, oldest first
  grabbedFile,      \* grabbed.json: the GrabbedItem records, newest first
  extractedFile,    \* extracted.json: the ExtractedItem records, newest first
  statsFile,        \* stats.json: the counters
  logsFile,         \* logs.json: the log entries, newest first
  jd,               \* jdConnected, jdDeviceId, jdConnectionAttempts, lastJdErrorTime
  storeLog          \* what the calls of the store have done so far (history)

fileVars == <<initialized, live, backups, tmp, wpc, wdata, wlast, preWrite, rd, envBudget>>

storeVars == <<feedsFile, scheduleFile, settingsFile>>

daemonVars == <<cronJobs, strayJobs, runningFeeds, runningFeedCount, isRunning, timers>>

histVars == <<ev, lastSet, final, unscheduled, startLog>>

schedVars == <<storeVars, daemonVars, tasks, evLeft, failLeft, histVars>>

pipeVars == <<processedFile, grabbedFile, extractedFile, statsFile, logsFile, jd, storeLog>>

vars == <<now, fileVars, schedVars, pipeVars>>

-----------------------------------------------------------------------------
(* Bounds *)

\* SpecFile: the clock of the backup names runs 0..MaxFileTime
MaxFileTime == 2

\* SpecBackup: the clock of the backup names runs 0..MaxBackupTime
MaxBackupTime == 6

\* SpecFile: the values written are 0..MaxVal
MaxVal == 1

\* SpecFile: outside events (corruption, crash, error) per behaviour
MaxEnv == 2

\* the feed ids are 1..MaxFeeds
MaxFeeds == 2

\* the time at which the behaviours begin; 0 is long before
Downtime == 2

\* Spec: the time that passes in a behaviour
MaxElapse == 1

\* Spec: tick fires, requests and stop() calls per behaviour
MaxEvents == 2

\* SpecStart: start() calls per behaviour
StartEvents == 1

(* calls of start() and stop() and tick fires under SpecLife *)
LifeEvents == 3

(* the call of start() and the tick fires under SpecRecover *)
RecoverEvents == 2

(* the tick fires under SpecSkip *)
SkipEvents == 3

(* the runs of the feed after the first under SpecSuccessive *)
LaterRuns == 2

\* SpecCap: manual scrape requests per behaviour
CapEvents == 6

\* Spec: store writes that fail per behaviour
MaxFail == 1

\* feed.interval of every feed
FeedInterval == 1

\* SpecPipe: the links of the items of a batch are 1..MaxItems
MaxItems == 2

\* SpecStore: calls of the store per behaviour
StoreEvents == 3

\* SpecStore: the amounts of incrementStat are 1..MaxAmount
MaxAmount == 2

\* SpecRetain: inserts beyond the cap of the collection
MaxOver == 2

\* SpecCleanup: entries per collection
MaxLen == 2

\* SpecCleanup: the maxAgeMs of the call is 1..MaxAge units of `now`
MaxAge == 2

(* Program constants *)

MAX_BACKUPS == 5

MAX_CONCURRENT_FEEDS == 5

MAX_RETRIES == 3

\* processed.slice(-1000)
PROCESSED_CAP == 1000

\* logs.slice(0, 100)
LOGS_CAP == 100

\* items.slice(0, 500) of the extracted and the grabbed items
ITEMS_CAP == 500

\* the 60000 ms between two connection attempts, one unit of `now`
JD_RETRY_WAIT == 1

\* 24 * 60 * 60 * 1000 ms, in units of `now`
DAY == 1440

-----------------------------------------------------------------------------
(***************************************************************************)
(* File contents.  A content is a record: kind "absent" (no such file),    *)
(* "blank" (empty or whitespace only), "garbage" (non-blank bytes that     *)
(* JSON.parse rejects) or "json" (the text JSON.stringify gives for value *)
(* v).  Values are 0..MaxVal; DefaultValue is the collection's default.    *)
(***************************************************************************)

Values == 0..MaxVal

DefaultValue == 0

Absent == [kind |-> "absent", v |-> 0]

Blank == [kind |-> "blank", v |-> 0]

Garbage == [kind |-> "garbage", v |-> 0]

Stringify(v) == [kind |-> "json", v |-> v]

Contents == {Absent, Blank, Garbage} \cup {Stringify(v) : v \in Values}

Parses(c) == c.kind = "json"

ParseJSON(c) == c.v

Times == 0..MaxFileTime

NoTime == 0 - 1

(* the timestamps of the backups, as a set; file names sort as timestamps *)
BackupTimes == DOMAIN backups

Max(S) == CHOOSE x \in S : \A y \in S : y <= x

RECURSIVE NewestFirst(_)
NewestFirst(S) == IF S = {} THEN <<>> ELSE <<Max(S)>> \o NewestFirst(S \ {Max(S)})

(* thisFileBackups.slice(5): all but the MAX_BACKUPS newest *)
KeepNewest(S, n) ==
  LET order == NewestFirst(S)
  IN {order[i] : i \in 1..(IF Len(order) < n THEN Len(order) ELSE n)}

Restrict(f, S) == [x \in S |-> f[x]]

-----------------------------------------------------------------------------
(* createBackup, as run by writeJSON before the write *)

BackupAfterCopy(bk, c, t) ==
  LET added == [x \in (DOMAIN bk) \cup {t} |-> IF x = t THEN c ELSE bk[x]]
  IN Restrict(added, KeepNewest(DOMAIN added, MAX_BACKUPS))

NoRead == [kind |-> "none", val |-> 0, pre |-> Absent, err |-> "none", bkErr |-> NoTime]

MidWrite == {"backup", "temp", "verify", "rename"}

(* writeJSON enters its exclusive section; ensureDataDir may fail first *)
WriteBegin(v) ==
  /\ wpc = "idle"
  /\ wpc' = "backup"
  /\ wdata' = v
  /\ wlast' = "none"
  /\ preWrite' = live
  /\ initialized' = TRUE
  /\ rd' = NoRead
  /\ UNCHANGED <<now, live, backups, tmp, envBudget>>

WriteBackup ==
  /\ wpc = "backup"
  /\ backups' = IF live = Absent THEN backups ELSE BackupAfterCopy(backups, live, now)
  /\ wpc' = "temp"
  /\ rd' = NoRead
  /\ UNCHANGED <<now, initialized, live, tmp, wdata, wlast, preWrite, envBudget>>

(* the backups when createBackup's try block is left by an error: at       *)
(* copyFile, with no backup made, or at the unlinks, whose errors are      *)
(* caught one by one, with the new backup made and none removed            *)
BackupAfterError(bk, c, t, where) ==
  IF where = "copy" THEN bk
  ELSE [x \in (DOMAIN bk) \cup {t} |-> IF x = t THEN c ELSE bk[x]]

(* a file-system error inside createBackup: lines 125-127 catch it, and    *)
(* writeJSON goes on                                                       *)
WriteBackupError(where) ==
  /\ wpc = "backup"
  /\ live # Absent
  /\ envBudget > 0
  /\ envBudget' = envBudget - 1
  /\ backups' = BackupAfterError(backups, live, now, where)
  /\ wpc' = "temp"
  /\ rd' = NoRead
  /\ UNCHANGED <<now, initialized, live, tmp, wdata, wlast, preWrite>>

(* fs.writeFile(tempFile, content): complete, or cut short without an error *)
TempAfterWrite(v, short) == IF short THEN Garbage ELSE Stringify(v)

(* a bug: the content is written over the live file itself *)
M_LiveAfterTempWrite(l, v, short) == TempAfterWrite(v, short)

(* the live file after fs.writeFile(tempFile, ...): tempFile is another path *)
LiveAfterTempWrite(l, v, short) == l

WriteTemp(short) ==
  /\ wpc = "temp"
  /\ short => envBudget > 0
  /\ envBudget' = IF short THEN envBudget - 1 ELSE envBudget
  /\ tmp' = TempAfterWrite(wdata, short)
  /\ live' = LiveAfterTempWrite(live, wdata, short)
  /\ wpc' = "verify"
  /\ rd' = NoRead
  /\ UNCHANGED <<now, initialized, backups, wdata, wlast, preWrite>>

(* the catch block of writeJSON: unlink the temporary file and rethrow *)
WriteFailed ==
  /\ tmp' = Absent
  /\ wpc' = "idle"
  /\ wlast' = "failed"
  /\ wdata' = DefaultValue
  /\ rd' = NoRead
  /\ UNCHANGED <<now, initialized, live, backups, preWrite>>

WriteVerify ==
  /\ wpc = "verify"
  /\ IF Parses(tmp)
       THEN /\ wpc' = "rename"
            /\ rd' = NoRead
            /\ UNCHANGED <<now, initialized, live, backups, tmp, wdata, wlast, preWrite, envBudget>>
       ELSE WriteFailed /\ UNCHANGED envBudget

LiveAfterRename(old, t) == t

WriteRename ==
  /\ wpc = "rename"
  /\ live' = LiveAfterRename(live, tmp)
  /\ tmp' = Absent
  /\ wpc' = "idle"
  /\ wlast' = "committed"
  /\ wdata' = DefaultValue
  /\ rd' = NoRead
  /\ UNCHANGED <<now, initialized, backups, preWrite, envBudget>>

(* a file-system error raised by writeFile, readFile or rename *)
WriteError ==
  /\ wpc \in {"temp", "verify", "rename"}
  /\ envBudget > 0
  /\ envBudget' = envBudget - 1
  /\ WriteFailed

(* the process dies inside writeJSON; the temporary file stays behind, and *)
(* a backup copy that was under way stays cut short                        *)
Crash ==
  /\ wpc \in MidWrite
  /\ envBudget > 0
  /\ envBudget' = envBudget - 1
  /\ wpc' = "idle"
  /\ wlast' = "crashed"
  /\ initialized' = FALSE
  /\ rd' = NoRead
  /\ \/ UNCHANGED backups
     \/ /\ wpc = "backup"
        /\ live # Absent
        /\ backups' = BackupAfterCopy(backups, Garbage, now)
  /\ wdata' = DefaultValue
  /\ UNCHANGED <<now, live, tmp, preWrite>>

-----------------------------------------------------------------------------
(* readJSON and restoreFromBackup *)

(* the loop of restoreFromBackup over the backups, newest first: the first *)
(* backup that can be read, parses and can be copied; NoTime when none     *)
RECURSIVE FirstRestorable(_, _, _)
FirstRestorable(order, bk, bkErr) ==
  IF order = <<>> THEN NoTime
  ELSE IF Parses(bk[Head(order)]) /\ Head(order) # bkErr
         THEN Head(order)
         ELSE FirstRestorable(Tail(order), bk, bkErr)

RECURSIVE Reverse(_)
Reverse(q) == IF q = <<>> THEN <<>> ELSE Reverse(Tail(q)) \o <<Head(q)>>

(* a bug: the .reverse() is missing, the oldest backup is tried first *)
M_BackupOrder(S) == Reverse(NewestFirst(S))

(* .filter(...).sort().reverse() *)
BackupOrder(S) == NewestFirst(S)

restoreFromBackup(bk, bkErr) == FirstRestorable(BackupOrder(DOMAIN bk), bk, bkErr)

(* a bug: an unparsable file without a usable backup is raised as an error *)
M_ReadUnparsable(c, bk, err, bkErr) ==
  LET t == restoreFromBackup(bk, bkErr)
  IN IF t = NoTime
       THEN [kind |-> "throw", val |-> 0, pre |-> c, err |-> err, bkErr |-> bkErr]
       ELSE [kind |-> "value", val |-> ParseJSON(bk[t]), pre |-> c, err |-> err, bkErr |-> bkErr]

(* what readJSON gives for a live content that does not parse *)
ReadUnparsable(c, bk, err, bkErr) ==
  LET t == restoreFromBackup(bk, bkErr)
  IN IF t = NoTime
       THEN [kind |-> "default", val |-> DefaultValue, pre |-> c, err |-> err, bkErr |-> bkErr]
       ELSE [kind |-> "value", val |-> ParseJSON(bk[t]), pre |-> c, err |-> err, bkErr |-> bkErr]

(* a bug: a file with nothing in it is treated as a file that does not     *)
(* parse                                                                   *)
M_readJSON(c, bk, err, bkErr) ==
  IF err \in {"MKDIR", "EIO"}
    THEN [kind |-> "throw", val |-> 0, pre |-> c, err |-> err, bkErr |-> bkErr]
  ELSE IF c.kind = "absent"
    THEN [kind |-> "default", val |-> DefaultValue, pre |-> c, err |-> err, bkErr |-> bkErr]
  ELSE IF Parses(c)
    THEN [kind |-> "value", val |-> ParseJSON(c), pre |-> c, err |-> err, bkErr |-> bkErr]
  ELSE ReadUnparsable(c, bk, err, bkErr)

(* the outcome of readJSON; err is the file-system error met: "none",      *)
(* "MKDIR" (ensureDataDir fails) or "EIO" (readFile fails, not ENOENT);    *)
(* bkErr is the backup whose read or copy fails, or NoTime                 *)
readJSON(c, bk, err, bkErr) ==
  IF err \in {"MKDIR", "EIO"}
    THEN [kind |-> "throw", val |-> 0, pre |-> c, err |-> err, bkErr |-> bkErr]
  ELSE IF c.kind \in {"absent", "blank"}
    THEN [kind |-> "default", val |-> DefaultValue, pre |-> c, err |-> err, bkErr |-> bkErr]
  ELSE IF Parses(c)
    THEN [kind |-> "value", val |-> ParseJSON(c), pre |-> c, err |-> err, bkErr |-> bkErr]
  ELSE ReadUnparsable(c, bk, err, bkErr)

(* the live file after readJSON: fs.copyFile(backupPath, file) on a restore *)
LiveAfterRead(c, bk, err, bkErr) ==
  IF err = "none" /\ c.kind = "garbage" /\ restoreFromBackup(bk, bkErr) # NoTime
    THEN bk[restoreFromBackup(bk, bkErr)]
    ELSE c

ReadErrors == {"none", "MKDIR", "EIO"}

Read(err, bkErr) ==
  /\ wpc = "idle"
  /\ err = "MKDIR" => ~initialized
  /\ err # "none" \/ bkErr # NoTime => envBudget > 0
  /\ envBudget' = IF err # "none" \/ bkErr # NoTime THEN envBudget - 1 ELSE envBudget
  /\ initialized' = (initialized \/ err # "MKDIR")
  /\ rd' = readJSON(live, backups, err, bkErr)
  /\ live' = LiveAfterRead(live, backups, err, bkErr)
  /\ wlast' = IF live' = live THEN wlast ELSE "none"
  /\ UNCHANGED <<now, backups, tmp, wpc, wdata, preWrite>>

(* the environment replaces the live file, or a backup, with other bytes *)
CorruptLive(c) ==
  /\ wpc = "idle"
  /\ envBudget > 0
  /\ c # live
  /\ envBudget' = envBudget - 1
  /\ live' = c
  /\ wlast' = "none"
  /\ rd' = NoRead
  /\ UNCHANGED <<now, initialized, backups, tmp, wpc, wdata, preWrite>>

CorruptBackup(t, c) ==
  /\ wpc = "idle"
  /\ envBudget > 0
  /\ t \in DOMAIN backups
  /\ c # backups[t]
  /\ envBudget' = envBudget - 1
  /\ backups' = [backups EXCEPT ![t] = c]
  /\ rd' = NoRead
  /\ UNCHANGED <<now, initialized, live, tmp, wpc, wdata, wlast, preWrite>>

AdvanceFileTime ==
  /\ now < MaxFileTime
  /\ now' = now + 1
  /\ rd' = NoRead
  /\ UNCHANGED <<initialized, live, backups, tmp, wpc, wdata, wlast, preWrite, envBudget>>

FeedIds == 1..MaxFeeds

NoEv == [type |-> "none", f |-> 0, a |-> 0, b |-> 0, c |-> 0, how |-> ""]

NoStart == [overdue |-> {}, runs |-> [f \in FeedIds |-> 0], done |-> FALSE]

(* settings.json as getSettings reads it when nothing was stored *)
DefaultSettings == [checkInterval |-> 15]

(* heartbeatTask and cleanupTask are set together (lines 150-157) and     *)
(* cleared together (lines 295-304): `set` says that they hold a task,     *)
(* `running` counts the pairs of cron tasks that were created and not      *)
(* stopped                                                                 *)
TimersOff == [set |-> FALSE, running |-> 0]

TimersOn == [set |-> TRUE, running |-> 1]

NoStats == [totalScraped |-> 0, linksFound |-> 0, submitted |-> 0]

(* no connection to the download manager, and none attempted *)
JdAtRest == [connected |-> FALSE, deviceId |-> 0 - 1, attempts |-> 0, lastError |-> 0]

(* no call of the store has been made *)
NoStoreLog ==
  [nextId |-> 1, submitted |-> {}, sum |-> NoStats, high |-> NoStats, legacy |-> {},
   pre |-> [logs |-> <<>>, extracted |-> <<>>, grabbed |-> <<>>, processed |-> <<>>]]

(* empty collections, as initializeFiles creates them *)
PipeAtRest ==
  /\ processedFile = <<>>
  /\ grabbedFile = <<>>
  /\ extractedFile = <<>>
  /\ statsFile = NoStats
  /\ logsFile = <<>>
  /\ jd = JdAtRest
  /\ storeLog = NoStoreLog

(* the scheduler before anything has been stored or called *)
SchedAtRest ==
  /\ PipeAtRest
  /\ feedsFile = <<>>
  /\ scheduleFile = <<>>
  /\ settingsFile = DefaultSettings
  /\ cronJobs = {}
  /\ strayJobs = [f \in FeedIds |-> 0]
  /\ runningFeeds = {}
  /\ runningFeedCount = 0
  /\ isRunning = FALSE
  /\ timers = TimersOff
  /\ tasks = EmptyBag
  /\ evLeft = 0
  /\ failLeft = 0
  /\ ev = NoEv
  /\ lastSet = [f \in FeedIds |-> 0 - 1]
  /\ final = [f \in FeedIds |-> "none"]
  /\ unscheduled = {}
  /\ startLog = NoStart

(* a fresh data directory with no call of the store in progress *)
FileAtRest ==
  /\ initialized = FALSE
  /\ live = Absent
  /\ backups = <<>>
  /\ tmp = Absent
  /\ wpc = "idle"
  /\ wdata = DefaultValue
  /\ wlast = "none"
  /\ preWrite = Absent
  /\ rd = NoRead
  /\ envBudget = 0

InitFile ==
  /\ now = 0
  /\ SchedAtRest
  /\ initialized = FALSE
  /\ live = Absent
  /\ backups = <<>>
  /\ tmp = Absent
  /\ wpc = "idle"
  /\ wdata = DefaultValue
  /\ wlast = "none"
  /\ preWrite = Absent
  /\ rd = NoRead
  /\ envBudget = MaxEnv

NextFile ==
  \/ UNCHANGED <<schedVars, pipeVars>> /\ \E v \in Values : WriteBegin(v)
  \/ UNCHANGED <<schedVars, pipeVars>> /\ WriteBackup
  \/ UNCHANGED <<schedVars, pipeVars>> /\ \E where \in {"copy", "unlink"} : WriteBackupError(where)
  \/ UNCHANGED <<schedVars, pipeVars>> /\ \E short \in BOOLEAN : WriteTemp(short)
  \/ UNCHANGED <<schedVars, pipeVars>> /\ WriteVerify
  \/ UNCHANGED <<schedVars, pipeVars>> /\ WriteRename
  \/ UNCHANGED <<schedVars, pipeVars>> /\ WriteError
  \/ UNCHANGED <<schedVars, pipeVars>> /\ Crash
  \/ UNCHANGED <<schedVars, pipeVars>> /\
       \E err \in ReadErrors, bkErr \in {NoTime} \cup DOMAIN backups : Read(err, bkErr)
  \/ UNCHANGED <<schedVars, pipeVars>> /\ \E c \in {Garbage, Blank, Absent} : CorruptLive(c)
  \/ UNCHANGED <<schedVars, pipeVars>> /\ \E t \in Times, c \in {Garbage, Blank} : CorruptBackup(t, c)
  \/ UNCHANGED <<schedVars, pipeVars>> /\ AdvanceFileTime

SpecFile == InitFile /\ [][NextFile]_vars

(***************************************************************************)
(* One collection file written again and again while the clock of the      *)
(* backup names runs 0..MaxBackupTime, so that more than MAX_BACKUPS       *)
(* backups are made.  Every write is complete; up to MaxEnv calls of       *)
(* createBackup meet a file-system error.                                  *)
(***************************************************************************)
AdvanceBackupTime ==
  /\ wpc = "idle"
  /\ now < MaxBackupTime
  /\ now' = now + 1
  /\ rd' = NoRead
  /\ UNCHANGED <<initialized, live, backups, tmp, wpc, wdata, wlast, preWrite, envBudget>>

NextBackup ==
  \/ UNCHANGED <<schedVars, pipeVars>> /\ \E v \in Values : WriteBegin(v)
  \/ UNCHANGED <<schedVars, pipeVars>> /\ WriteBackup
  \/ UNCHANGED <<schedVars, pipeVars>> /\ \E where \in {"copy", "unlink"} : WriteBackupError(where)
  \/ UNCHANGED <<schedVars, pipeVars>> /\ WriteTemp(FALSE)
  \/ UNCHANGED <<schedVars, pipeVars>> /\ WriteVerify
  \/ UNCHANGED <<schedVars, pipeVars>> /\ WriteRename
  \/ UNCHANGED <<schedVars, pipeVars>> /\ AdvanceBackupTime

SpecBackup == InitFile /\ [][NextBackup]_vars

-----------------------------------------------------------------------------
(***************************************************************************)
(* The scheduler (Scraper) over the feeds and schedule collections.        *)
(*                                                                         *)
(* Every asynchronous call in progress is a task record in the bag         *)
(* `tasks`; a step of a task runs from one await to the next.  A store     *)
(* mutation (setScheduleEntry, removeScheduleEntry, updateFeed,            *)
(* deleteFeed) is two steps, as in the code: readJSON of the collection    *)
(* under the file's mutex, then writeJSON of the changed copy under the    *)
(* mutex again.  The network fetch and the item loop of a run touch        *)
(* neither collection and are part of the step that precedes them.         *)
(***************************************************************************)

NoCont == <<0>>

None == 0 - 1

NewTask(k, f, pc, org, cont) ==
  [k |-> k, f |-> f, pc |-> pc, org |-> org, cont |-> cont,
   t0 |-> None, w |-> None, nr |-> None, st |-> "", early |-> FALSE,
   ssnap |-> <<>>, fsnap |-> <<>>, todo |-> <<>>, now0 |-> None]

One(t) == SetToBag({t})

Running == BagToSet(tasks)

(* feed.interval, in the unit of `now` *)
Interval(f) == FeedInterval

WithEntry(s, f, nr) == [x \in (DOMAIN s) \cup {f} |-> IF x = f THEN nr ELSE s[x]]

WithoutEntry(s, f) == [x \in (DOMAIN s) \ {f} |-> s[x]]

(* { ...feeds[index], ...updates }: "found" stands for the totalFound update *)
WithStatus(fs, f, st) ==
  IF st = "found" THEN fs ELSE [fs EXCEPT ![f] = [@ EXCEPT !.status = st]]

WithoutFeed(fs, f) == [x \in (DOMAIN fs) \ {f} |-> fs[x]]

RECURSIVE Ascending(_)
Ascending(S) ==
  IF S = {} THEN <<>>
  ELSE LET m == CHOOSE x \in S : \A y \in S : x <= y
       IN <<m>> \o Ascending(S \ {m})

(* the caller that awaits a call goes on: start()'s loop over the feeds *)
Resume(cont) ==
  IF cont = NoCont THEN EmptyBag
  ELSE One(NewTask("start", 0, "schedNext", "start", cont))

(* a bug: scrapeFeed does not look at the running count *)
M_GuardsPass(f) == f \notin runningFeeds

(* the two guards at the head of scrapeFeed *)
GuardsPass(f) == f \notin runningFeeds /\ runningFeedCount < MAX_CONCURRENT_FEEDS

(* scrapeFeed(f) up to its first await, storage.getFeed *)
scrapeFeedCall(f, org, cont) ==
  IF GuardsPass(f) THEN One(NewTask("scrape", f, "getFeed", org, cont))
  ELSE Resume(cont)

(* the runs of feed f that have entered the in-flight set and not left it *)
InFlight(f) == {t \in Running : t.k = "scrape" /\ t.f = f /\ t.pc # "getFeed"}

RECURSIVE CopiesSum(_)
CopiesSum(S) ==
  IF S = {} THEN 0
  ELSE LET x == CHOOSE y \in S : TRUE IN CopiesIn(x, tasks) + CopiesSum(S \ {x})

InFlightCount(f) == CopiesSum(InFlight(f))

InFlightTotal == CopiesSum(UNION {InFlight(f) : f \in FeedIds})

LogRun(sl, t) ==
  IF t.org \in {"recover", "start"} THEN [sl EXCEPT !.runs[t.f] = @ + 1] ELSE sl

-----------------------------------------------------------------------------
(* scrapeFeed *)

(* storage.getFeed has returned: lines 401-414 *)
ScrapeGotFeed(t) ==
  /\ t.k = "scrape" /\ t.pc = "getFeed"
  /\ IF t.f \notin DOMAIN feedsFile
       THEN /\ tasks' = (tasks (-) One(t)) (+) Resume(t.cont)
            /\ ev' = [NoEv EXCEPT !.type = "norun", !.f = t.f]
            /\ UNCHANGED <<runningFeeds, runningFeedCount, final, startLog>>
       ELSE /\ runningFeeds' = runningFeeds \cup {t.f}
            /\ runningFeedCount' = runningFeedCount + 1
            /\ tasks' = (tasks (-) One(t)) (+)
                 One([t EXCEPT !.pc = "schedRead1", !.t0 = now,
                               !.nr = now + Interval(t.f)])
            /\ final' = [final EXCEPT ![t.f] = "none"]
            /\ startLog' = LogRun(startLog, t)
            /\ ev' = [NoEv EXCEPT !.type = "begin", !.f = t.f, !.a = now]
  /\ UNCHANGED <<now, storeVars, cronJobs, strayJobs, isRunning, timers, evLeft, failLeft,
                 lastSet, unscheduled, fileVars, pipeVars>>

(* setScheduleEntry, first half: getSchedule *)
ScrapeSchedRead(t) ==
  /\ t.k = "scrape" /\ t.pc \in {"schedRead1", "schedRead2"}
  /\ tasks' = (tasks (-) One(t)) (+)
       One([t EXCEPT !.ssnap = scheduleFile,
                     !.pc = IF t.pc = "schedRead1" THEN "schedWrite1" ELSE "schedWrite2"])
  /\ ev' = NoEv
  /\ UNCHANGED <<now, storeVars, daemonVars, evLeft, failLeft,
                 lastSet, final, unscheduled, startLog, fileVars, pipeVars>>

(* a bug: the run leaves its feed id in the in-flight set *)
M_SetAfterRun(set, f) == set

(* this.runningFeeds.delete(feedId) of the finally block *)
SetAfterRun(set, f) == set \ {f}

(* the finally block: lines 596-599 *)
CountAfterRun(n) == IF n - 1 < 0 THEN 0 ELSE n - 1

EndRun(t, how, w, c) ==
  /\ runningFeeds' = SetAfterRun(runningFeeds, t.f)
  /\ runningFeedCount' = CountAfterRun(runningFeedCount)
  /\ tasks' = (tasks (-) One(t)) (+) Resume(t.cont)
  /\ final' = [final EXCEPT ![t.f] = IF how \in {"error", "errorLost"} THEN "error" ELSE "idle"]
  /\ ev' = [type |-> "end", f |-> t.f, a |-> t.t0, b |-> w, c |-> c, how |-> how]

(* setScheduleEntry at the start of the run, second half: writeJSON;       *)
(* lines 409-420 *)
ScrapeSchedWrite1(t, ok) ==
  /\ t.k = "scrape" /\ t.pc = "schedWrite1"
  /\ ~ok => failLeft > 0
  /\ failLeft' = IF ok THEN failLeft ELSE failLeft - 1
  /\ IF ok
       THEN /\ scheduleFile' = WithEntry(t.ssnap, t.f, t.nr)
            /\ lastSet' = [lastSet EXCEPT ![t.f] = t.nr]
            /\ tasks' = (tasks (-) One(t)) (+)
                 One([t EXCEPT !.pc = "feedRead", !.st = "scraping", !.w = t.nr,
                               !.nr = None, !.ssnap = <<>>])
            /\ ev' = [NoEv EXCEPT !.type = "setSchedule", !.f = t.f]
            /\ UNCHANGED <<runningFeeds, runningFeedCount, final>>
       ELSE /\ runningFeeds' = runningFeeds \ {t.f}
            /\ runningFeedCount' = runningFeedCount - 1
            /\ tasks' = (tasks (-) One(t)) (+) Resume(t.cont)
            /\ ev' = [type |-> "end", f |-> t.f, a |-> t.t0, b |-> None, c |-> None,
                      how |-> "notStarted"]
            /\ UNCHANGED <<scheduleFile, lastSet, final>>
  /\ UNCHANGED <<now, settingsFile, feedsFile, cronJobs, strayJobs, isRunning, timers, evLeft,
                 unscheduled, startLog, fileVars, pipeVars>>

(* updateFeed, first half: getFeeds *)
ScrapeFeedRead(t) ==
  /\ t.k = "scrape" /\ t.pc = "feedRead"
  /\ tasks' = (tasks (-) One(t)) (+) One([t EXCEPT !.fsnap = feedsFile, !.pc = "feedWrite"])
  /\ ev' = NoEv
  /\ UNCHANGED <<now, storeVars, daemonVars, evLeft, failLeft,
                 lastSet, final, unscheduled, startLog, fileVars, pipeVars>>

FetchOutcomes == {"error", "empty", "items"}

(* the status a run writes next, after the write of `st` and what follows it *)
(* in the run up to the next updateFeed                                     *)
NextStatus(st, fetch) ==
  IF st = "scraping"
    THEN (IF fetch = "error" THEN "error" ELSE IF fetch = "empty" THEN "idle" ELSE "found")
    ELSE "idle"

(* updateFeed, second half: the write (none when the feed is not in the    *)
(* copy), and the run up to its next store call.  fetch is what            *)
(* parseRSSWithRetry and the partition of the items give: an error, no     *)
(* (new) items, or new items.                                              *)
ScrapeFeedWrite(t, ok, fetch) ==
  /\ t.k = "scrape" /\ t.pc = "feedWrite"
  /\ ~ok => failLeft > 0 /\ t.f \in DOMAIN t.fsnap
  /\ t.st # "scraping" => fetch = "items"
  /\ failLeft' = IF ok THEN failLeft ELSE failLeft - 1
  /\ feedsFile' = IF ok /\ t.f \in DOMAIN t.fsnap
                    THEN WithStatus(t.fsnap, t.f, t.st) ELSE feedsFile
  /\ UNCHANGED <<now, settingsFile, cronJobs, strayJobs, isRunning, timers, evLeft, unscheduled,
                 startLog, fileVars, pipeVars>>
  /\ IF ~ok
       THEN \* writeJSON throws: into the catch block, or out of it
            IF t.st = "error"
              THEN EndRun(t, "errorLost", t.w, None) /\ UNCHANGED <<scheduleFile, lastSet>>
              ELSE /\ tasks' = (tasks (-) One(t)) (+)
                        One([t EXCEPT !.pc = "feedRead", !.st = "error", !.fsnap = <<>>])
                   /\ ev' = NoEv
                   /\ UNCHANGED <<scheduleFile, lastSet, runningFeeds, runningFeedCount, final>>
     ELSE IF t.st = "error"
       THEN EndRun(t, "error", t.w, None) /\ UNCHANGED <<scheduleFile, lastSet>>
     ELSE IF t.st = "idle" /\ t.early
       THEN EndRun(t, "early", t.w, None) /\ UNCHANGED <<scheduleFile, lastSet>>
     ELSE IF t.st = "idle"
       THEN /\ tasks' = (tasks (-) One(t)) (+)
                 One([t EXCEPT !.pc = "schedRead2", !.nr = now + Interval(t.f), !.fsnap = <<>>])
            /\ ev' = NoEv
            /\ UNCHANGED <<scheduleFile, lastSet, runningFeeds, runningFeedCount, final>>
     ELSE /\ tasks' = (tasks (-) One(t)) (+)
               One([t EXCEPT !.pc = "feedRead", !.st = NextStatus(t.st, fetch),
                             !.early = (t.st = "scraping" /\ fetch = "empty"),
                             !.fsnap = <<>>])
          /\ ev' = NoEv
          /\ UNCHANGED <<scheduleFile, lastSet, runningFeeds, runningFeedCount, final>>

(* a bug: the completion write is skipped *)
M_ScheduleAfterRun(ok, snap, f, nr, cur) == cur

(* the schedule file after the setScheduleEntry at the end of a full run *)
ScheduleAfterRun(ok, snap, f, nr, cur) == IF ok THEN WithEntry(snap, f, nr) ELSE cur

(* setScheduleEntry at the end of a full run: lines 575-585, then finally *)
ScrapeSchedWrite2(t, ok) ==
  /\ t.k = "scrape" /\ t.pc = "schedWrite2"
  /\ ~ok => failLeft > 0
  /\ failLeft' = IF ok THEN failLeft ELSE failLeft - 1
  /\ scheduleFile' = ScheduleAfterRun(ok, t.ssnap, t.f, t.nr, scheduleFile)
  /\ lastSet' = IF ok THEN [lastSet EXCEPT ![t.f] = t.nr] ELSE lastSet
  /\ EndRun(t, IF ok THEN "full" ELSE "fullUnsaved",
            IF ok /\ t.f \in DOMAIN scheduleFile' THEN scheduleFile'[t.f] ELSE t.w,
            t.nr - Interval(t.f))
  /\ UNCHANGED <<now, settingsFile, feedsFile, cronJobs, strayJobs, isRunning, timers, evLeft,
                 unscheduled, startLog, fileVars, pipeVars>>

-----------------------------------------------------------------------------
(* scheduleFeed *)

(* storage.getFeed has returned: lines 320-337 *)
SchedGotFeed(t) ==
  /\ t.k = "sched" /\ t.pc = "getFeed"
  /\ IF t.f \notin DOMAIN feedsFile
       THEN /\ tasks' = (tasks (-) One(t)) (+) Resume(t.cont)
            /\ ev' = [NoEv EXCEPT !.type = "noFeed", !.f = t.f]
            /\ UNCHANGED cronJobs
       ELSE /\ cronJobs' = cronJobs \ {t.f}
            /\ tasks' = (tasks (-) One(t)) (+)
                 One([t EXCEPT !.pc = "schedRead", !.now0 = now, !.nr = now + Interval(t.f)])
            /\ ev' = NoEv
  /\ UNCHANGED <<now, storeVars, strayJobs, runningFeeds, runningFeedCount, isRunning, timers,
                 evLeft, failLeft, lastSet, final, unscheduled, startLog, fileVars, pipeVars>>

SchedRead(t) ==
  /\ t.k = "sched" /\ t.pc = "schedRead"
  /\ tasks' = (tasks (-) One(t)) (+) One([t EXCEPT !.ssnap = scheduleFile, !.pc = "schedWrite"])
  /\ ev' = NoEv
  /\ UNCHANGED <<now, storeVars, daemonVars, evLeft, failLeft,
                 lastSet, final, unscheduled, startLog, fileVars, pipeVars>>

(* a bug: the tick job is created whether the entry was stored or not *)
M_JobsAfterSchedule(jobs, f, ok) == jobs \cup {f}

(* this.cronJobs.set(feedId, job), which the return of line 348 skips *)
JobsAfterSchedule(jobs, f, ok) == IF ok THEN jobs \cup {f} ELSE jobs

(* the write of the entry, then lines 351-368: the tick job is created and *)
(* put in the map (a job already in the map stays running, unmapped), and  *)
(* scrapeFeed is called                                                    *)
SchedWrite(t, ok) ==
  /\ t.k = "sched" /\ t.pc = "schedWrite"
  /\ ~ok => failLeft > 0
  /\ failLeft' = IF ok THEN failLeft ELSE failLeft - 1
  /\ IF ok
       THEN /\ scheduleFile' = WithEntry(t.ssnap, t.f, t.nr)
            /\ lastSet' = [lastSet EXCEPT ![t.f] = t.nr]
            /\ strayJobs' = IF t.f \in cronJobs
                              THEN [strayJobs EXCEPT ![t.f] = @ + 1] ELSE strayJobs
            /\ tasks' = (tasks (-) One(t)) (+) scrapeFeedCall(t.f, t.org, t.cont)
            /\ ev' = [NoEv EXCEPT !.type = "scheduled", !.f = t.f, !.a = t.nr, !.b = t.now0]
       ELSE /\ tasks' = (tasks (-) One(t)) (+) Resume(t.cont)
            /\ ev' = [NoEv EXCEPT !.type = "notScheduled", !.f = t.f]
            /\ UNCHANGED <<scheduleFile, lastSet, strayJobs>>
  /\ cronJobs' = JobsAfterSchedule(cronJobs, t.f, ok)
  /\ UNCHANGED <<now, settingsFile, feedsFile, runningFeeds, runningFeedCount, isRunning, timers,
                 evLeft, final, unscheduled, startLog, fileVars, pipeVars>>

(* POST /api/feeds/:id/scrape: scheduleFeed(id), not awaited *)
ManualScrape(f) ==
  /\ evLeft > 0
  /\ f \in DOMAIN feedsFile
  /\ evLeft' = evLeft - 1
  /\ tasks' = tasks (+) One(NewTask("sched", f, "getFeed", "manual", NoCont))
  /\ ev' = NoEv
  /\ UNCHANGED <<now, storeVars, daemonVars, failLeft,
                 lastSet, final, unscheduled, startLog, fileVars, pipeVars>>

-----------------------------------------------------------------------------
(* the tick job of a feed: lines 354-363 *)

HasJob(f) == f \in cronJobs \/ strayJobs[f] > 0

(* node-cron fires the callback of a running job *)
TickFire(f) ==
  /\ evLeft > 0
  /\ HasJob(f)
  /\ evLeft' = evLeft - 1
  /\ tasks' = tasks (+) One(NewTask("tick", f, "read", "tick", NoCont))
  /\ ev' = NoEv
  /\ UNCHANGED <<now, storeVars, daemonVars, failLeft,
                 lastSet, final, unscheduled, startLog, fileVars, pipeVars>>

(* a bug: the tick does not look at nextRun *)
M_TickDue(sched, f, t) == f \in DOMAIN sched

(* entry && Date.now() >= entry.nextRun *)
TickDue(sched, f, t) == f \in DOMAIN sched /\ t >= sched[f]

(* getSchedule has returned *)
TickRead(t) ==
  /\ t.k = "tick" /\ t.pc = "read"
  /\ tasks' = (tasks (-) One(t)) (+)
       (IF TickDue(scheduleFile, t.f, now) THEN scrapeFeedCall(t.f, "tick", NoCont)
        ELSE EmptyBag)
  /\ ev' = [type |-> "tick", f |-> t.f,
            a |-> IF t.f \in DOMAIN scheduleFile THEN scheduleFile[t.f] ELSE None,
            b |-> now, c |-> None,
            how |-> IF TickDue(scheduleFile, t.f, now) THEN "call" ELSE "skip"]
  /\ UNCHANGED <<now, storeVars, daemonVars, evLeft, failLeft,
                 lastSet, final, unscheduled, startLog, fileVars, pipeVars>>

-----------------------------------------------------------------------------
(* DELETE /api/feeds/:id: deleteFeed, then unscheduleFeed *)

DeleteRequest(f) ==
  /\ evLeft > 0
  /\ f \in DOMAIN feedsFile
  /\ evLeft' = evLeft - 1
  /\ tasks' = tasks (+) One(NewTask("delete", f, "feedRead", "api", NoCont))
  /\ ev' = NoEv
  /\ UNCHANGED <<now, storeVars, daemonVars, failLeft,
                 lastSet, final, unscheduled, startLog, fileVars, pipeVars>>

DeleteFeedRead(t) ==
  /\ t.k = "delete" /\ t.pc = "feedRead"
  /\ tasks' = (tasks (-) One(t)) (+) One([t EXCEPT !.fsnap = feedsFile, !.pc = "feedWrite"])
  /\ ev' = NoEv
  /\ UNCHANGED <<now, storeVars, daemonVars, evLeft, failLeft,
                 lastSet, final, unscheduled, startLog, fileVars, pipeVars>>

(* deleteFeed's write; on success unscheduleFeed begins: lines 372-380 *)
DeleteFeedWrite(t) ==
  /\ t.k = "delete" /\ t.pc = "feedWrite"
  /\ IF t.f \in DOMAIN t.fsnap
       THEN /\ feedsFile' = WithoutFeed(t.fsnap, t.f)
            /\ cronJobs' = cronJobs \ {t.f}
            /\ tasks' = (tasks (-) One(t)) (+)
                 One([t EXCEPT !.fsnap = <<>>, !.pc = "schedRead"])
       ELSE /\ tasks' = tasks (-) One(t)
            /\ UNCHANGED <<feedsFile, cronJobs>>
  /\ ev' = NoEv
  /\ UNCHANGED <<now, settingsFile, scheduleFile, strayJobs, runningFeeds, runningFeedCount,
                 isRunning, timers, evLeft, failLeft, lastSet, final, unscheduled, startLog, fileVars, pipeVars>>

UnscheduleRead(t) ==
  /\ t.k = "delete" /\ t.pc = "schedRead"
  /\ tasks' = (tasks (-) One(t)) (+) One([t EXCEPT !.ssnap = scheduleFile, !.pc = "schedWrite"])
  /\ ev' = NoEv
  /\ UNCHANGED <<now, storeVars, daemonVars, evLeft, failLeft,
                 lastSet, final, unscheduled, startLog, fileVars, pipeVars>>

(* removeScheduleEntry's write: lines 381-385 *)
UnscheduleWrite(t, ok) ==
  /\ t.k = "delete" /\ t.pc = "schedWrite"
  /\ ~ok => failLeft > 0
  /\ failLeft' = IF ok THEN failLeft ELSE failLeft - 1
  /\ scheduleFile' = IF ok THEN WithoutEntry(t.ssnap, t.f) ELSE scheduleFile
  /\ lastSet' = IF ok THEN [lastSet EXCEPT ![t.f] = None] ELSE lastSet
  /\ unscheduled' = IF ok THEN unscheduled \cup {t.f} ELSE unscheduled
  /\ tasks' = tasks (-) One(t)
  /\ ev' = [NoEv EXCEPT !.type = "unscheduled", !.f = t.f]
  /\ UNCHANGED <<now, settingsFile, feedsFile, daemonVars, evLeft, final, startLog,
                 fileVars, pipeVars>>

-----------------------------------------------------------------------------
(* start(), recoverSchedule() and stop() *)

(* a bug: start() does not look at isRunning *)
M_StartProceeds(running) == TRUE

(* if (this.isRunning) return *)
StartProceeds(running) == ~running

(* start(): lines 132-138, up to the first await; the log entries that the *)
(* daemon writes are not part of the scheduler's state                     *)
Start ==
  /\ evLeft > 0
  /\ evLeft' = evLeft - 1
  /\ IF StartProceeds(isRunning)
       THEN /\ isRunning' = TRUE
            /\ tasks' = tasks (+) One(NewTask("start", 0, "init", "start", NoCont))
            /\ startLog' = NoStart
            /\ ev' = [NoEv EXCEPT !.type = "start", !.how = "begun"]
       ELSE /\ ev' = [NoEv EXCEPT !.type = "start", !.how = "noop"]
            /\ UNCHANGED <<isRunning, tasks, startLog>>
  /\ UNCHANGED <<now, storeVars, cronJobs, strayJobs, runningFeeds, runningFeedCount, timers,
                 failLeft, lastSet, final, unscheduled, fileVars, pipeVars>>

(* addLog and runCleanup have returned: the maintenance job and the        *)
(* heartbeat job are created, and recoverSchedule begins: lines 147-160    *)
StartInstall(t) ==
  /\ t.k = "start" /\ t.pc = "init"
  /\ timers' = [set |-> TRUE, running |-> timers.running + 1]
  /\ tasks' = (tasks (-) One(t)) (+) One([t EXCEPT !.pc = "recRead"])
  /\ ev' = [NoEv EXCEPT !.type = "timers"]
  /\ UNCHANGED <<now, storeVars, cronJobs, strayJobs, runningFeeds, runningFeedCount,
                 isRunning, evLeft, failLeft, lastSet, final, unscheduled, startLog,
                 fileVars, pipeVars>>

EntriesOf(sched) == [i \in 1..Len(Ascending(DOMAIN sched)) |->
                       <<Ascending(DOMAIN sched)[i], sched[Ascending(DOMAIN sched)[i]]>>]

(* recoverSchedule: lines 215-217 *)
RecoverRead(t) ==
  /\ t.k = "start" /\ t.pc = "recRead"
  /\ tasks' = (tasks (-) One(t)) (+)
       One([t EXCEPT !.todo = EntriesOf(scheduleFile), !.now0 = now, !.pc = "recNext"])
  /\ ev' = NoEv
  /\ UNCHANGED <<now, storeVars, daemonVars, evLeft, failLeft,
                 lastSet, final, unscheduled, startLog, fileVars, pipeVars>>

(* entry.nextRun < now *)
MissedRun(nextRun, t) == nextRun < t

(* the next entry of the loop, after its storage.getFeed: lines 219-239 *)
RecoverNext(t) ==
  /\ t.k = "start" /\ t.pc = "recNext"
  /\ IF t.todo = <<>>
       THEN /\ tasks' = (tasks (-) One(t)) (+) One([t EXCEPT !.pc = "loadFeeds", !.now0 = None])
            /\ UNCHANGED startLog
     ELSE IF Head(t.todo)[1] \notin DOMAIN feedsFile
       THEN /\ tasks' = (tasks (-) One(t)) (+)
                 One([t EXCEPT !.pc = "rmRead", !.f = Head(t.todo)[1]])
            /\ UNCHANGED startLog
     ELSE IF MissedRun(Head(t.todo)[2], t.now0)
       THEN /\ tasks' = (tasks (-) One(t)) (+)
                 One([t EXCEPT !.pc = "setRead", !.f = Head(t.todo)[1],
                               !.nr = t.now0 + Interval(Head(t.todo)[1])])
            /\ startLog' = [startLog EXCEPT !.overdue = @ \cup {Head(t.todo)[1]}]
     ELSE /\ tasks' = (tasks (-) One(t)) (+) One([t EXCEPT !.todo = Tail(t.todo)])
          /\ UNCHANGED startLog
  /\ ev' = NoEv
  /\ UNCHANGED <<now, storeVars, daemonVars, evLeft, failLeft,
                 lastSet, final, unscheduled, fileVars, pipeVars>>

RecoverStoreRead(t) ==
  /\ t.k = "start" /\ t.pc \in {"rmRead", "setRead"}
  /\ tasks' = (tasks (-) One(t)) (+)
       One([t EXCEPT !.ssnap = scheduleFile,
                     !.pc = IF t.pc = "rmRead" THEN "rmWrite" ELSE "setWrite"])
  /\ ev' = NoEv
  /\ UNCHANGED <<now, storeVars, daemonVars, evLeft, failLeft,
                 lastSet, final, unscheduled, startLog, fileVars, pipeVars>>

(* removeScheduleEntry of an entry whose feed is gone: lines 223-226 *)
RecoverRemoveWrite(t, ok) ==
  /\ t.k = "start" /\ t.pc = "rmWrite"
  /\ ~ok => failLeft > 0
  /\ failLeft' = IF ok THEN failLeft ELSE failLeft - 1
  /\ scheduleFile' = IF ok THEN WithoutEntry(t.ssnap, t.f) ELSE scheduleFile
  /\ lastSet' = IF ok THEN [lastSet EXCEPT ![t.f] = None] ELSE lastSet
  /\ tasks' = (tasks (-) One(t)) (+)
       One([t EXCEPT !.pc = "recNext", !.f = 0, !.ssnap = <<>>, !.todo = Tail(t.todo)])
  /\ ev' = NoEv
  /\ UNCHANGED <<now, settingsFile, feedsFile, daemonVars, evLeft, final, unscheduled,
                 startLog, fileVars, pipeVars>>

(* the entry is rewritten, then the catch-up run is called and not awaited: *)
(* lines 233-242; when the write fails the inner catch logs and goes on     *)
RecoverSetWrite(t, ok) ==
  /\ t.k = "start" /\ t.pc = "setWrite"
  /\ ~ok => failLeft > 0
  /\ failLeft' = IF ok THEN failLeft ELSE failLeft - 1
  /\ scheduleFile' = IF ok THEN WithEntry(t.ssnap, t.f, t.nr) ELSE scheduleFile
  /\ lastSet' = IF ok THEN [lastSet EXCEPT ![t.f] = t.nr] ELSE lastSet
  /\ tasks' = ((tasks (-) One(t)) (+)
       One([t EXCEPT !.pc = "recNext", !.f = 0, !.nr = None, !.ssnap = <<>>,
                     !.todo = Tail(t.todo)]))
       (+) (IF ok THEN scrapeFeedCall(t.f, "recover", NoCont) ELSE EmptyBag)
  /\ ev' = [NoEv EXCEPT !.type = "recovered", !.f = t.f, !.a = t.nr, !.b = t.now0,
                        !.how = IF ok THEN "run" ELSE "failed"]
  /\ UNCHANGED <<now, settingsFile, feedsFile, daemonVars, evLeft, final, unscheduled,
                 startLog, fileVars, pipeVars>>

(* storage.getFeeds: lines 162-164 *)
StartLoadFeeds(t) ==
  /\ t.k = "start" /\ t.pc = "loadFeeds"
  /\ tasks' = (tasks (-) One(t)) (+)
       One([t EXCEPT !.pc = "schedNext", !.todo = <<>>, !.cont = Ascending(DOMAIN feedsFile)])
  /\ ev' = NoEv
  /\ UNCHANGED <<now, storeVars, daemonVars, evLeft, failLeft,
                 lastSet, final, unscheduled, startLog, fileVars, pipeVars>>

(* await this.scheduleFeed(feed.id) for the next feed: lines 164-168 *)
StartScheduleNext(t) ==
  /\ t.k = "start" /\ t.pc = "schedNext"
  /\ IF t.cont = <<>>
       THEN /\ tasks' = tasks (-) One(t)
            /\ startLog' = [startLog EXCEPT !.done = TRUE]
            /\ ev' = [NoEv EXCEPT !.type = "started"]
       ELSE /\ tasks' = (tasks (-) One(t)) (+)
                 One(NewTask("sched", Head(t.cont), "getFeed", "start", Tail(t.cont)))
            /\ UNCHANGED startLog
            /\ ev' = NoEv
  /\ UNCHANGED <<now, storeVars, daemonVars, evLeft, failLeft,
                 lastSet, final, unscheduled, fileVars, pipeVars>>

(* stop(): lines 281-308, up to its await of addLog; the jobs of the map   *)
(* and the two jobs that heartbeatTask and cleanupTask hold are stopped    *)
Stop ==
  /\ evLeft > 0
  /\ evLeft' = evLeft - 1
  /\ isRunning' = FALSE
  /\ cronJobs' = {}
  /\ timers' = IF timers.set THEN [set |-> FALSE, running |-> timers.running - 1] ELSE timers
  /\ runningFeeds' = {}
  /\ runningFeedCount' = 0
  /\ tasks' = tasks (+) One(NewTask("stop", 0, "addLog", "stop", NoCont))
  /\ ev' = [NoEv EXCEPT !.type = "stopping"]
  /\ UNCHANGED <<now, storeVars, strayJobs, failLeft,
                 lastSet, final, unscheduled, startLog, fileVars, pipeVars>>

(* addLog has returned, and stop() with it: lines 310-316 *)
StopReturn(t) ==
  /\ t.k = "stop"
  /\ tasks' = tasks (-) One(t)
  /\ ev' = [NoEv EXCEPT !.type = "stopped"]
  /\ UNCHANGED <<now, storeVars, daemonVars, evLeft, failLeft,
                 lastSet, final, unscheduled, startLog, fileVars, pipeVars>>

AdvanceNow ==
  /\ now < Downtime + MaxElapse
  /\ now' = now + 1
  /\ ev' = NoEv
  /\ UNCHANGED <<storeVars, daemonVars, tasks, evLeft, failLeft,
                 lastSet, final, unscheduled, startLog, fileVars, pipeVars>>

-----------------------------------------------------------------------------
(* the states the specifications start in *)

IdleFeed == [status |-> "idle"]

(* nothing in flight, nothing recorded *)
AtRest ==
  /\ FileAtRest
  /\ strayJobs = [f \in FeedIds |-> 0]
  /\ runningFeeds = {}
  /\ runningFeedCount = 0
  /\ tasks = EmptyBag
  /\ ev = NoEv
  /\ final = [f \in FeedIds |-> "none"]
  /\ unscheduled = {}
  /\ startLog = NoStart
  /\ lastSet = [f \in FeedIds |-> IF f \in DOMAIN scheduleFile THEN scheduleFile[f] ELSE None]

(***************************************************************************)
(* The daemon at work: start() has completed, every feed is idle and has   *)
(* its tick job and its ScheduleEntry, which is due now or one interval    *)
(* from now.                                                               *)
(***************************************************************************)
Init ==
  /\ now = Downtime
  /\ feedsFile = [f \in FeedIds |-> IdleFeed]
  /\ scheduleFile \in [FeedIds -> {Downtime, Downtime + FeedInterval}]
  /\ settingsFile = DefaultSettings
  /\ cronJobs = FeedIds
  /\ isRunning = TRUE
  /\ timers = TimersOn
  /\ AtRest
  /\ PipeAtRest
  /\ evLeft = MaxEvents
  /\ failLeft = MaxFail

Next ==
  \/ \E t \in Running : ScrapeGotFeed(t)
  \/ \E t \in Running : ScrapeSchedRead(t)
  \/ \E t \in Running, ok \in BOOLEAN : ScrapeSchedWrite1(t, ok)
  \/ \E t \in Running : ScrapeFeedRead(t)
  \/ \E t \in Running, ok \in BOOLEAN, fetch \in FetchOutcomes : ScrapeFeedWrite(t, ok, fetch)
  \/ \E t \in Running, ok \in BOOLEAN : ScrapeSchedWrite2(t, ok)
  \/ \E t \in Running : SchedGotFeed(t)
  \/ \E t \in Running : SchedRead(t)
  \/ \E t \in Running, ok \in BOOLEAN : SchedWrite(t, ok)
  \/ \E t \in Running : TickRead(t)
  \/ \E t \in Running : DeleteFeedRead(t)
  \/ \E t \in Running : DeleteFeedWrite(t)
  \/ \E t \in Running : UnscheduleRead(t)
  \/ \E t \in Running, ok \in BOOLEAN : UnscheduleWrite(t, ok)
  \/ \E f \in FeedIds : ManualScrape(f)
  \/ \E f \in FeedIds : TickFire(f)
  \/ \E f \in FeedIds : DeleteRequest(f)
  \/ Stop
  \/ \E t \in Running : StopReturn(t)
  \/ AdvanceNow

Spec == Init /\ [][Next]_vars

(* a step of a call in progress: the store call or the network call that   *)
(* the call awaits returns or throws                                       *)
CallStep ==
  \E t \in Running :
    \/ ScrapeGotFeed(t)
    \/ ScrapeSchedRead(t)
    \/ \E ok \in BOOLEAN : ScrapeSchedWrite1(t, ok)
    \/ ScrapeFeedRead(t)
    \/ \E ok \in BOOLEAN, fetch \in FetchOutcomes : ScrapeFeedWrite(t, ok, fetch)
    \/ \E ok \in BOOLEAN : ScrapeSchedWrite2(t, ok)
    \/ SchedGotFeed(t)
    \/ SchedRead(t)
    \/ \E ok \in BOOLEAN : SchedWrite(t, ok)
    \/ TickRead(t)
    \/ DeleteFeedRead(t)
    \/ DeleteFeedWrite(t)
    \/ UnscheduleRead(t)
    \/ \E ok \in BOOLEAN : UnscheduleWrite(t, ok)
    \/ StopReturn(t)

(* the daemon at work when every I/O call terminates *)
SpecTerminating == Init /\ [][Next]_vars /\ WF_vars(CallStep)

(***************************************************************************)
(* The process after a downtime: just constructed, not started.  The disk  *)
(* holds the feeds, idle, and a ScheduleEntry for every feed id, whose     *)
(* nextRun has passed during the downtime (0) or has not; the feed of the  *)
(* last entry may be gone.  No store write fails.                          *)
(***************************************************************************)
InitStart ==
  /\ now = Downtime
  /\ \E S \in {FeedIds, FeedIds \ {MaxFeeds}} : feedsFile = [f \in S |-> IdleFeed]
  /\ scheduleFile \in [FeedIds -> {0, Downtime + FeedInterval}]
  /\ settingsFile = DefaultSettings
  /\ cronJobs = {}
  /\ isRunning = FALSE
  /\ timers = TimersOff
  /\ AtRest
  /\ PipeAtRest
  /\ evLeft = StartEvents
  /\ failLeft = 0

NextStart ==
  \/ Start
  \/ \E t \in Running : StartInstall(t)
  \/ \E t \in Running : RecoverRead(t)
  \/ \E t \in Running : RecoverNext(t)
  \/ \E t \in Running : RecoverStoreRead(t)
  \/ \E t \in Running, ok \in BOOLEAN : RecoverRemoveWrite(t, ok)
  \/ \E t \in Running, ok \in BOOLEAN : RecoverSetWrite(t, ok)
  \/ \E t \in Running : StartLoadFeeds(t)
  \/ \E t \in Running : StartScheduleNext(t)
  \/ \E t \in Running : SchedGotFeed(t)
  \/ \E t \in Running : SchedRead(t)
  \/ \E t \in Running, ok \in BOOLEAN : SchedWrite(t, ok)
  \/ \E t \in Running : ScrapeGotFeed(t)
  \/ \E t \in Running : ScrapeSchedRead(t)
  \/ \E t \in Running, ok \in BOOLEAN : ScrapeSchedWrite1(t, ok)
  \/ \E t \in Running : ScrapeFeedRead(t)
  \/ \E t \in Running, ok \in BOOLEAN, fetch \in FetchOutcomes : ScrapeFeedWrite(t, ok, fetch)
  \/ \E t \in Running, ok \in BOOLEAN : ScrapeSchedWrite2(t, ok)

SpecStart == InitStart /\ [][NextStart]_vars

(***************************************************************************)
(* The life of the daemon: one feed, whose ScheduleEntry is overdue or     *)
(* not, and up to LifeEvents calls of start() and stop() and fires of the  *)
(* feed's tick job, in any order and at any point of the calls in          *)
(* progress.  No store write fails, and the feed has no new item.          *)
(***************************************************************************)
InitLife ==
  /\ now = Downtime
  /\ feedsFile = [f \in {1} |-> IdleFeed]
  /\ scheduleFile \in [{1} -> {0, Downtime + FeedInterval}]
  /\ settingsFile = DefaultSettings
  /\ cronJobs = {}
  /\ isRunning = FALSE
  /\ timers = TimersOff
  /\ AtRest
  /\ PipeAtRest
  /\ evLeft = LifeEvents
  /\ failLeft = 0

NextLife ==
  \/ Start
  \/ Stop
  \/ TickFire(1)
  \/ \E t \in Running : StartInstall(t)
  \/ \E t \in Running : StopReturn(t)
  \/ \E t \in Running : TickRead(t)
  \/ \E t \in Running : RecoverRead(t)
  \/ \E t \in Running : RecoverNext(t)
  \/ \E t \in Running : RecoverStoreRead(t)
  \/ \E t \in Running : RecoverSetWrite(t, TRUE)
  \/ \E t \in Running : StartLoadFeeds(t)
  \/ \E t \in Running : StartScheduleNext(t)
  \/ \E t \in Running : SchedGotFeed(t)
  \/ \E t \in Running : SchedRead(t)
  \/ \E t \in Running : SchedWrite(t, TRUE)
  \/ \E t \in Running : ScrapeGotFeed(t)
  \/ \E t \in Running : ScrapeSchedRead(t)
  \/ \E t \in Running : ScrapeSchedWrite1(t, TRUE)
  \/ \E t \in Running : ScrapeFeedRead(t)
  \/ \E t \in Running : ScrapeFeedWrite(t, TRUE, IF t.st = "scraping" THEN "empty" ELSE "items")

SpecLife == InitLife /\ [][NextLife]_vars

(***************************************************************************)
(* start() after a downtime with the tick jobs at work: every feed exists  *)
(* and has a ScheduleEntry, overdue or not; one store write may fail, and  *)
(* the tick jobs that scheduleFeed creates fire while the catch-up runs    *)
(* are in flight.  The feeds have no new items.                            *)
(***************************************************************************)
InitRecover ==
  /\ now = Downtime
  /\ feedsFile = [f \in FeedIds |-> IdleFeed]
  /\ scheduleFile \in [FeedIds -> {0, Downtime + FeedInterval}]
  /\ settingsFile = DefaultSettings
  /\ cronJobs = {}
  /\ isRunning = FALSE
  /\ timers = TimersOff
  /\ AtRest
  /\ PipeAtRest
  /\ evLeft = RecoverEvents
  /\ failLeft = MaxFail

NextRecover ==
  \/ Start
  \/ \E f \in FeedIds : TickFire(f)
  \/ \E t \in Running : TickRead(t)
  \/ \E t \in Running : StartInstall(t)
  \/ \E t \in Running : RecoverRead(t)
  \/ \E t \in Running : RecoverNext(t)
  \/ \E t \in Running : RecoverStoreRead(t)
  \/ \E t \in Running, ok \in BOOLEAN : RecoverSetWrite(t, ok)
  \/ \E t \in Running : StartLoadFeeds(t)
  \/ \E t \in Running : StartScheduleNext(t)
  \/ \E t \in Running : SchedGotFeed(t)
  \/ \E t \in Running : SchedRead(t)
  \/ \E t \in Running : SchedWrite(t, TRUE)
  \/ \E t \in Running : ScrapeGotFeed(t)
  \/ \E t \in Running : ScrapeSchedRead(t)
  \/ \E t \in Running : ScrapeSchedWrite1(t, TRUE)
  \/ \E t \in Running : ScrapeFeedRead(t)
  \/ \E t \in Running : ScrapeFeedWrite(t, TRUE, IF t.st = "scraping" THEN "empty" ELSE "items")

SpecRecover == InitRecover /\ [][NextRecover]_vars

(***************************************************************************)
(* The ticks at the cap: the runs of MAX_CONCURRENT_FEEDS other feeds, or  *)
(* of one or two fewer, are in flight and wait for their network fetches;  *)
(* the tick jobs of the two feeds fire, the runs they start go on to their *)
(* end (the feeds have no new items), and the last of the other runs may   *)
(* end.                                                                    *)
(***************************************************************************)
OtherFeeds(n) == (MaxFeeds + 1)..(MaxFeeds + n)

(* the finally block of the run of another feed: lines 596-599 *)
OtherRunEnds(g) ==
  /\ g \in runningFeeds \ FeedIds
  /\ runningFeeds' = runningFeeds \ {g}
  /\ runningFeedCount' = CountAfterRun(runningFeedCount)
  /\ ev' = [NoEv EXCEPT !.type = "otherEnd", !.f = g]
  /\ UNCHANGED <<now, storeVars, cronJobs, strayJobs, isRunning, timers, tasks, evLeft,
                 failLeft, lastSet, final, unscheduled, startLog, fileVars, pipeVars>>

InitSkip ==
  /\ now = Downtime
  /\ feedsFile = [f \in FeedIds |-> IdleFeed]
  /\ scheduleFile \in [FeedIds -> {Downtime, Downtime + FeedInterval}]
  /\ settingsFile = DefaultSettings
  /\ cronJobs = FeedIds
  /\ isRunning = TRUE
  /\ timers = TimersOn
  /\ FileAtRest
  /\ strayJobs = [f \in FeedIds |-> 0]
  /\ \E n \in (MAX_CONCURRENT_FEEDS - 2)..MAX_CONCURRENT_FEEDS :
       runningFeeds = OtherFeeds(n) /\ runningFeedCount = n
  /\ tasks = EmptyBag
  /\ ev = NoEv
  /\ final = [f \in FeedIds |-> "none"]
  /\ unscheduled = {}
  /\ startLog = NoStart
  /\ lastSet = [f \in FeedIds |-> scheduleFile[f]]
  /\ PipeAtRest
  /\ evLeft = SkipEvents
  /\ failLeft = 0

NextSkip ==
  \/ \E f \in FeedIds : TickFire(f)
  \/ \E t \in Running : TickRead(t)
  \/ \E t \in Running : ScrapeGotFeed(t)
  \/ \E t \in Running : ScrapeSchedRead(t)
  \/ \E t \in Running : ScrapeSchedWrite1(t, TRUE)
  \/ \E t \in Running : ScrapeFeedRead(t)
  \/ \E t \in Running : ScrapeFeedWrite(t, TRUE, IF t.st = "scraping" THEN "empty" ELSE "items")
  \/ OtherRunEnds(MaxFeeds + MAX_CONCURRENT_FEEDS)
  \/ AdvanceNow

SpecSkip == InitSkip /\ [][NextSkip]_vars

(***************************************************************************)
(* One feed and a burst of manual scrape requests, up to the network fetch  *)
(* of each run, which does not return.                                     *)
(***************************************************************************)
InitCap ==
  /\ now = Downtime
  /\ feedsFile = [f \in {1} |-> IdleFeed]
  /\ scheduleFile = [f \in {1} |-> Downtime + FeedInterval]
  /\ settingsFile = DefaultSettings
  /\ cronJobs = {1}
  /\ isRunning = TRUE
  /\ timers = TimersOn
  /\ AtRest
  /\ PipeAtRest
  /\ evLeft = CapEvents
  /\ failLeft = 0

NextCap ==
  \/ ManualScrape(1)
  \/ \E t \in Running : SchedGotFeed(t)
  \/ \E t \in Running : SchedRead(t)
  \/ \E t \in Running : SchedWrite(t, TRUE)
  \/ \E t \in Running : ScrapeGotFeed(t)
  \/ \E t \in Running : ScrapeSchedRead(t)
  \/ \E t \in Running : ScrapeSchedWrite1(t, TRUE)

SpecCap == InitCap /\ [][NextCap]_vars

-----------------------------------------------------------------------------
(***************************************************************************)
(* The item pipeline of one run (scrapeFeed, lines 435-570) and the        *)
(* connection to the download manager (ensureJDConnection,                 *)
(* submitToJDownloader, disconnectJD).                                     *)
(*                                                                         *)
(* A run is a task record of kind "pipe": the batch is the list of the     *)
(* links of newItems.slice(0, 10), `i` the position of the loop, `out`     *)
(* what findDownloadLinksWithRetry gave for every position.  The network   *)
(* calls (the feed fetch, the article fetch, connect, listDevices,         *)
(* addLinks) take their outcome from outside.  The store calls of this     *)
(* part succeed, and a single run is in progress, so that each of them is  *)
(* one step.                                                               *)
(***************************************************************************)

(* a bug: slice(0, n), the oldest entries are kept *)
M_KeepLast(s, n) == IF Len(s) <= n THEN s ELSE SubSeq(s, 1, n)

(* processed.slice(-1000) *)
KeepLast(s, n) == IF Len(s) <= n THEN s ELSE SubSeq(s, Len(s) - n + 1, Len(s))

(* items.slice(0, 500), logs.slice(0, 100) *)
KeepFirst(s, n) == IF Len(s) <= n THEN s ELSE SubSeq(s, 1, n)

Urls(p) == {p[j].url : j \in DOMAIN p}

(* typeof raw[0] === 'string': the file holds the bare list of urls of the  *)
(* old format; a bare url is an entry whose timestamp is None              *)
Legacy(p) == p # <<>> /\ p[1].timestamp = None

(* raw.map(url => ({ url, timestamp })) when the list is of the old format *)
Migrated(p, ts) ==
  IF Legacy(p) THEN [j \in DOMAIN p |-> [url |-> p[j].url, timestamp |-> ts]] ELSE p

(* isProcessed: includes(url) on the old format, some(p => p.url === url)  *)
(* on the new one                                                          *)
IsProcessed(p, url) ==
  IF Legacy(p) THEN \E j \in DOMAIN p : p[j].url = url ELSE url \in Urls(p)

(* a bug: the url is appended whether or not it is present *)
M_ProcessedAfterMark(p, url, ts) ==
  KeepLast(Append(p, [url |-> url, timestamp |-> ts]), PROCESSED_CAP)

(* markProcessed: what is written, or the collection as read when the url  *)
(* is present and nothing is written                                       *)
ProcessedAfterMark(p, url, ts) ==
  IF url \in Urls(Migrated(p, ts)) THEN p
  ELSE KeepLast(Append(Migrated(p, ts), [url |-> url, timestamp |-> ts]), PROCESSED_CAP)

(* addGrabbedItem *)
GrabbedAfterAdd(g, link, hasDownload, ts) ==
  KeepFirst(<<[link |-> link, hasDownload |-> hasDownload, timestamp |-> ts]>> \o g, ITEMS_CAP)

(* addExtractedItem *)
ExtractedAfterAdd(x, id, ts) ==
  KeepFirst(<<[id |-> id, submitted |-> FALSE, timestamp |-> ts]>> \o x, ITEMS_CAP)

(* markExtractedItemSubmitted: findIndex, then items[index].submitted = true *)
ExtractedAfterSubmit(x, id) ==
  IF \E j \in DOMAIN x : x[j].id = id
  THEN LET k == CHOOSE j \in DOMAIN x : x[j].id = id /\ \A h \in 1..(j - 1) : x[h].id # id
       IN [x EXCEPT ![k].submitted = TRUE]
  ELSE x

(* addLog *)
LogsAfterAdd(l, id, ts) == KeepFirst(<<[id |-> id, timestamp |-> ts]>> \o l, LOGS_CAP)

(* stats[key] += amount *)
StatsAfterIncrement(s, key, amount) == [s EXCEPT ![key] = @ + amount]

(* attempt < retries: another attempt follows a failure *)
RetriesLeft(attempt) == attempt < MAX_RETRIES

NewPipe(f, batch, conf) ==
  [k |-> "pipe", f |-> f, pc |-> "parse", batch |-> batch, i |-> 1,
   attempt |-> 1, sleeps |-> 0, allFormat |-> TRUE,
   out |-> [j \in DOMAIN batch |-> "pending"],
   conf |-> conf, adds |-> 0, sub0 |-> 0, att0 |-> 0, called |-> FALSE, sent |-> <<>>]

Replace(t, t2) == tasks' = (tasks (-) One(t)) (+) One(t2)

Url(t) == t.batch[t.i]

PipeFrame == UNCHANGED <<now, fileVars, storeVars, daemonVars, evLeft, failLeft,
                         lastSet, final, unscheduled, startLog, storeLog>>

(* the loop goes to the next item, or ends *)
NextItem(t) ==
  IF t.i = Len(t.batch) THEN [t EXCEPT !.pc = "done"]
  ELSE [t EXCEPT !.pc = "extract", !.i = @ + 1, !.attempt = 1, !.sleeps = 0]

(* the items whose link isProcessed does not find: lines 459-465 *)
Unprocessed(items, p) ==
  LET new(url) == ~IsProcessed(p, url) IN SelectSeq(items, new)

(* one attempt of parseRSSWithRetry, and lines 439-446; when the feed is   *)
(* there, the items are partitioned by isProcessed, the run ends when none *)
(* is new (lines 479-490), and the new ones are counted (line 500)         *)
ParseAttempt(t, res) ==
  /\ t.k = "pipe" /\ t.pc = "parse"
  /\ LET fmt == t.allFormat /\ res = "format"
         newItems == Unprocessed(t.batch, processedFile) IN
     IF res = "ok" /\ newItems = <<>>
     THEN /\ Replace(t, [t EXCEPT !.pc = "done", !.batch = newItems, !.out = <<>>])
          /\ ev' = [NoEv EXCEPT !.type = "noNewItems", !.f = t.f]
          /\ UNCHANGED statsFile
     ELSE IF res = "ok"
     THEN /\ Replace(t, [t EXCEPT !.pc = "extract", !.attempt = 1, !.sleeps = 0,
                                  !.batch = newItems,
                                  !.out = [j \in DOMAIN newItems |-> "pending"]])
          /\ statsFile' = StatsAfterIncrement(statsFile, "totalScraped", Len(newItems))
          /\ ev' = [NoEv EXCEPT !.type = "parsed", !.f = t.f, !.a = t.attempt, !.b = t.sleeps]
     ELSE IF RetriesLeft(t.attempt)
     THEN /\ Replace(t, [t EXCEPT !.pc = "parseSleep", !.allFormat = fmt])
          /\ ev' = NoEv
          /\ UNCHANGED statsFile
     ELSE /\ Replace(t, [t EXCEPT !.pc = "done", !.allFormat = fmt])
          /\ ev' = [type |-> "parseFailed", f |-> t.f, a |-> t.attempt, b |-> t.sleeps,
                    c |-> IF fmt THEN 1 ELSE 0,
                    how |-> IF res = "format" THEN "invalidFeed" ELSE "error"]
          /\ UNCHANGED statsFile
  /\ UNCHANGED <<processedFile, grabbedFile, extractedFile, logsFile, jd>>
  /\ PipeFrame

(* await this.sleep(delay) has returned, the next attempt begins *)
RetrySleep(t) ==
  /\ t.k = "pipe" /\ t.pc \in {"parseSleep", "extractSleep"}
  /\ Replace(t, [t EXCEPT !.pc = IF t.pc = "parseSleep" THEN "parse" ELSE "extract",
                          !.attempt = @ + 1, !.sleeps = @ + 1])
  /\ ev' = NoEv
  /\ UNCHANGED pipeVars
  /\ PipeFrame

(* one attempt of findDownloadLinksWithRetry; when the last one fails the  *)
(* catch of the item logs a warning and the loop goes on                   *)
ExtractAttempt(t, res) ==
  /\ t.k = "pipe" /\ t.pc = "extract"
  /\ IF res \in {"links", "none"}
     THEN /\ Replace(t, [t EXCEPT !.pc = "grab", !.out[t.i] = res])
          /\ ev' = NoEv
     ELSE IF RetriesLeft(t.attempt)
     THEN /\ Replace(t, [t EXCEPT !.pc = "extractSleep"])
          /\ ev' = NoEv
     ELSE /\ Replace(t, NextItem([t EXCEPT !.out[t.i] = "failed"]))
          /\ ev' = [type |-> "itemEnd", f |-> Url(t), a |-> t.attempt, b |-> t.sleeps,
                    c |-> 0, how |-> "failed"]
  /\ UNCHANGED pipeVars
  /\ PipeFrame

(* storage.addGrabbedItem, lines 515-530 *)
GrabItem(t) ==
  /\ t.k = "pipe" /\ t.pc = "grab"
  /\ grabbedFile' = GrabbedAfterAdd(grabbedFile, Url(t), t.out[t.i] = "links", now)
  /\ Replace(t, [t EXCEPT !.pc = IF t.out[t.i] = "links" THEN "addExtracted" ELSE "mark"])
  /\ ev' = NoEv
  /\ UNCHANGED <<processedFile, extractedFile, statsFile, logsFile, jd>>
  /\ PipeFrame

(* storage.addExtractedItem, lines 536-553; the position of the item in    *)
(* the batch stands for the random id of the record                        *)
AddExtracted(t) ==
  /\ t.k = "pipe" /\ t.pc = "addExtracted"
  /\ extractedFile' = ExtractedAfterAdd(extractedFile, t.i, now)
  /\ Replace(t, [t EXCEPT !.pc = "linksFound"])
  /\ ev' = NoEv
  /\ UNCHANGED <<processedFile, grabbedFile, statsFile, logsFile, jd>>
  /\ PipeFrame

(* storage.incrementStat("linksFound") *)
IncLinksFound(t) ==
  /\ t.k = "pipe" /\ t.pc = "linksFound"
  /\ statsFile' = StatsAfterIncrement(statsFile, "linksFound", 1)
  /\ Replace(t, [t EXCEPT !.pc = "submit"])
  /\ ev' = NoEv
  /\ UNCHANGED <<processedFile, grabbedFile, extractedFile, logsFile, jd>>
  /\ PipeFrame

(* disconnectJD: the finally block *)
Disconnected(c) == [c EXCEPT !.connected = FALSE, !.deviceId = None]

(* the rate limit at the head of ensureJDConnection *)
InBackoff(c, t) == c.attempts > 0 /\ (t - c.lastError) < JD_RETRY_WAIT

(* submitToJDownloader has returned: the item goes on to markProcessed *)
SubmitEnd(t, s, how) ==
  /\ Replace(t, [s EXCEPT !.pc = "mark"])
  /\ ev' = [type |-> "submitEnd", f |-> Url(s), a |-> s.att0, b |-> s.adds,
            c |-> s.sub0, how |-> how]

(* submitToJDownloader up to its first await: the credentials, then the    *)
(* head of ensureJDConnection                                              *)
SubmitBegin(t) ==
  /\ t.k = "pipe" /\ t.pc = "submit"
  /\ LET s == [t EXCEPT !.adds = 0, !.sub0 = statsFile.submitted,
                        !.att0 = jd.attempts, !.called = FALSE] IN
     IF ~t.conf THEN SubmitEnd(t, s, "notConfigured")
     ELSE IF InBackoff(jd, now) THEN SubmitEnd(t, s, "backoff")
     ELSE IF jd.connected /\ jd.deviceId # None
     THEN /\ Replace(t, [s EXCEPT !.pc = "addLinks"])
          /\ ev' = [NoEv EXCEPT !.type = "ensure", !.f = Url(t), !.how = "connected"]
     ELSE /\ Replace(t, [s EXCEPT !.pc = "connect"])
          /\ ev' = [NoEv EXCEPT !.type = "ensure", !.f = Url(t), !.how = "connect"]
  /\ UNCHANGED pipeVars
  /\ PipeFrame

(* jdownloaderAPI.connect has returned or thrown: lines 793-795, 857-868 *)
Connect(t, ok) ==
  /\ t.k = "pipe" /\ t.pc = "connect"
  /\ IF ok
     THEN /\ jd' = [jd EXCEPT !.connected = TRUE, !.attempts = 0]
          /\ Replace(t, [t EXCEPT !.pc = "listDevices", !.called = TRUE])
          /\ ev' = NoEv
     ELSE /\ jd' = Disconnected([jd EXCEPT !.attempts = @ + 1, !.lastError = now])
          /\ SubmitEnd(t, [t EXCEPT !.called = TRUE], "connectFailed")
  /\ UNCHANGED <<processedFile, grabbedFile, extractedFile, statsFile, logsFile>>
  /\ PipeFrame

(* jdownloaderAPI.listDevices has returned or thrown: lines 805-856 *)
ListDevices(t, res) ==
  /\ t.k = "pipe" /\ t.pc = "listDevices"
  /\ IF res = "devices"
     THEN /\ jd' = [jd EXCEPT !.deviceId = 1]
          /\ Replace(t, [t EXCEPT !.pc = "addLinks"])
          /\ ev' = NoEv
     ELSE /\ jd' = Disconnected(jd)
          /\ SubmitEnd(t, t, IF res = "error" THEN "listFailed" ELSE "noDevices")
  /\ UNCHANGED <<processedFile, grabbedFile, extractedFile, statsFile, logsFile>>
  /\ PipeFrame

(* a bug: the catch does not reset the connection *)
M_ConnectionAfterAddFailure(c) == c

(* what the catch of submitToJDownloader leaves: disconnectJD *)
ConnectionAfterAddFailure(c) == Disconnected(c)

(* jdownloaderAPI.addLinks has returned or thrown: lines 898, 918-927 *)
AddLinks(t, ok) ==
  /\ t.k = "pipe" /\ t.pc = "addLinks"
  /\ IF ok
     THEN /\ Replace(t, [t EXCEPT !.pc = "incSubmitted", !.adds = @ + 1,
                                  !.sent = Append(@, Url(t))])
          /\ ev' = NoEv
          /\ UNCHANGED jd
     ELSE /\ jd' = ConnectionAfterAddFailure(jd)
          /\ SubmitEnd(t, [t EXCEPT !.adds = @ + 1, !.sent = Append(@, Url(t))], "addFailed")
  /\ UNCHANGED <<processedFile, grabbedFile, extractedFile, statsFile, logsFile>>
  /\ PipeFrame

(* storage.incrementStat("submitted") *)
IncSubmitted(t) ==
  /\ t.k = "pipe" /\ t.pc = "incSubmitted"
  /\ statsFile' = StatsAfterIncrement(statsFile, "submitted", 1)
  /\ Replace(t, [t EXCEPT !.pc = "markSubmitted"])
  /\ ev' = NoEv
  /\ UNCHANGED <<processedFile, grabbedFile, extractedFile, logsFile, jd>>
  /\ PipeFrame

(* storage.markExtractedItemSubmitted, and the return of the submission *)
MarkSubmitted(t) ==
  /\ t.k = "pipe" /\ t.pc = "markSubmitted"
  /\ extractedFile' = ExtractedAfterSubmit(extractedFile, t.i)
  /\ SubmitEnd(t, t, "ok")
  /\ UNCHANGED <<processedFile, grabbedFile, statsFile, logsFile, jd>>
  /\ PipeFrame

(* storage.markProcessed(item.link), line 561 *)
MarkItem(t) ==
  /\ t.k = "pipe" /\ t.pc = "mark"
  /\ processedFile' = ProcessedAfterMark(processedFile, Url(t), now)
  /\ Replace(t, NextItem(t))
  /\ ev' = [NoEv EXCEPT !.type = "itemEnd", !.f = Url(t), !.how = t.out[t.i]]
  /\ UNCHANGED <<grabbedFile, extractedFile, statsFile, logsFile, jd>>
  /\ PipeFrame

(***************************************************************************)
(* One run that is about to fetch its feed; the feed holds one to MaxItems *)
(* new items, two of which may carry the same link; the credentials of the *)
(* download manager are configured or not.                                 *)
(***************************************************************************)
Batches == UNION {[1..n -> 1..MaxItems] : n \in 1..MaxItems}

InitPipe ==
  /\ now = Downtime
  /\ feedsFile = [f \in {1} |-> [status |-> "scraping"]]
  /\ scheduleFile = [f \in {1} |-> Downtime + FeedInterval]
  /\ settingsFile = DefaultSettings
  /\ cronJobs = {1}
  /\ strayJobs = [f \in FeedIds |-> 0]
  /\ runningFeeds = {1}
  /\ runningFeedCount = 1
  /\ isRunning = TRUE
  /\ timers = TimersOn
  /\ \E b \in Batches, conf \in BOOLEAN : tasks = One(NewPipe(1, b, conf))
  /\ evLeft = 0
  /\ failLeft = 0
  /\ ev = NoEv
  /\ lastSet = [f \in FeedIds |-> IF f = 1 THEN Downtime + FeedInterval ELSE None]
  /\ final = [f \in FeedIds |-> "none"]
  /\ unscheduled = {}
  /\ startLog = NoStart
  /\ FileAtRest
  /\ PipeAtRest

NextPipe ==
  \/ \E t \in Running, res \in {"ok", "transient", "format"} : ParseAttempt(t, res)
  \/ \E t \in Running : RetrySleep(t)
  \/ \E t \in Running, res \in {"links", "none", "error"} : ExtractAttempt(t, res)
  \/ \E t \in Running : GrabItem(t)
  \/ \E t \in Running : AddExtracted(t)
  \/ \E t \in Running : IncLinksFound(t)
  \/ \E t \in Running : SubmitBegin(t)
  \/ \E t \in Running, ok \in BOOLEAN : Connect(t, ok)
  \/ \E t \in Running, res \in {"error", "empty", "devices"} : ListDevices(t, res)
  \/ \E t \in Running, ok \in BOOLEAN : AddLinks(t, ok)
  \/ \E t \in Running : IncSubmitted(t)
  \/ \E t \in Running : MarkSubmitted(t)
  \/ \E t \in Running : MarkItem(t)
  \/ AdvanceNow

SpecPipe == InitPipe /\ [][NextPipe]_vars

(***************************************************************************)
(* The runs of two feeds at the same time, each about to fetch its feed.   *)
(* Feed 1 lists the articles 1 and 2, feed 2 lists the article 1; the      *)
(* article 2 is in the processed collection or not.  Every fetch succeeds  *)
(* and every article holds a link; the calls of the download manager       *)
(* succeed or fail.                                                        *)
(***************************************************************************)
InitTwoRuns ==
  /\ now = Downtime
  /\ feedsFile = [f \in FeedIds |-> [status |-> "scraping"]]
  /\ scheduleFile = [f \in FeedIds |-> Downtime + FeedInterval]
  /\ settingsFile = DefaultSettings
  /\ cronJobs = FeedIds
  /\ strayJobs = [f \in FeedIds |-> 0]
  /\ runningFeeds = {1, 2}
  /\ runningFeedCount = 2
  /\ isRunning = TRUE
  /\ timers = TimersOn
  /\ tasks = One(NewPipe(1, <<1, 2>>, TRUE)) (+) One(NewPipe(2, <<1>>, TRUE))
  /\ evLeft = 0
  /\ failLeft = 0
  /\ ev = NoEv
  /\ lastSet = [f \in FeedIds |-> Downtime + FeedInterval]
  /\ final = [f \in FeedIds |-> "none"]
  /\ unscheduled = {}
  /\ startLog = NoStart
  /\ FileAtRest
  /\ \E n \in 0..1 : processedFile = [j \in 1..n |-> [url |-> 2, timestamp |-> 0]]
  /\ grabbedFile = <<>>
  /\ extractedFile = <<>>
  /\ statsFile = NoStats
  /\ logsFile = <<>>
  /\ jd = JdAtRest
  /\ storeLog = NoStoreLog

NextTwoRuns ==
  \/ \E t \in Running : ParseAttempt(t, "ok")
  \/ \E t \in Running : ExtractAttempt(t, "links")
  \/ \E t \in Running : GrabItem(t)
  \/ \E t \in Running : AddExtracted(t)
  \/ \E t \in Running : IncLinksFound(t)
  \/ \E t \in Running : SubmitBegin(t)
  \/ \E t \in Running, ok \in BOOLEAN : Connect(t, ok)
  \/ \E t \in Running, res \in {"error", "empty", "devices"} : ListDevices(t, res)
  \/ \E t \in Running, ok \in BOOLEAN : AddLinks(t, ok)
  \/ \E t \in Running : IncSubmitted(t)
  \/ \E t \in Running : MarkSubmitted(t)
  \/ \E t \in Running : MarkItem(t)
  \/ AdvanceNow

SpecTwoRuns == InitTwoRuns /\ [][NextTwoRuns]_vars

(***************************************************************************)
(* The runs of one feed one after the other.  The feed lists the same      *)
(* articles at every run; every feed fetch succeeds, an article fetch      *)
(* gives links, gives none, or fails; the download manager is not          *)
(* configured.  A run begins when no run is in progress.                   *)
(***************************************************************************)
Listing == [j \in 1..MaxItems |-> j]

(* the next tick of the feed begins a run: scrapeFeed up to the feed fetch *)
NextRunOfFeed ==
  /\ evLeft > 0
  /\ \A t \in Running : t.pc = "done"
  /\ evLeft' = evLeft - 1
  /\ tasks' = tasks (+) One(NewPipe(1, Listing, FALSE))
  /\ ev' = [NoEv EXCEPT !.type = "nextRun"]
  /\ UNCHANGED <<now, fileVars, storeVars, daemonVars, failLeft, lastSet, final,
                 unscheduled, startLog, pipeVars>>

InitSuccessive ==
  /\ now = Downtime
  /\ feedsFile = [f \in {1} |-> [status |-> "scraping"]]
  /\ scheduleFile = [f \in {1} |-> Downtime + FeedInterval]
  /\ settingsFile = DefaultSettings
  /\ cronJobs = {1}
  /\ strayJobs = [f \in FeedIds |-> 0]
  /\ runningFeeds = {1}
  /\ runningFeedCount = 1
  /\ isRunning = TRUE
  /\ timers = TimersOn
  /\ tasks = One(NewPipe(1, Listing, FALSE))
  /\ evLeft = LaterRuns
  /\ failLeft = 0
  /\ ev = NoEv
  /\ lastSet = [f \in FeedIds |-> IF f = 1 THEN Downtime + FeedInterval ELSE None]
  /\ final = [f \in FeedIds |-> "none"]
  /\ unscheduled = {}
  /\ startLog = NoStart
  /\ FileAtRest
  /\ PipeAtRest

NextSuccessive ==
  \/ \E t \in Running : ParseAttempt(t, "ok")
  \/ \E t \in Running, res \in {"links", "none", "error"} : ExtractAttempt(t, res)
  \/ \E t \in Running : RetrySleep(t)
  \/ \E t \in Running : GrabItem(t)
  \/ \E t \in Running : AddExtracted(t)
  \/ \E t \in Running : IncLinksFound(t)
  \/ \E t \in Running : SubmitBegin(t)
  \/ \E t \in Running : MarkItem(t)
  \/ NextRunOfFeed

SpecSuccessive == InitSuccessive /\ [][NextSuccessive]_vars

-----------------------------------------------------------------------------
(***************************************************************************)
(* Calls of the store that run at the same time: the runs of several       *)
(* feeds and the requests of the API call addExtractedItem,                *)
(* markExtractedItemSubmitted, incrementStat and markProcessed while       *)
(* another call is in progress.  Each of them is readJSON of the           *)
(* collection, a change of the copy, and writeJSON of the copy: the read   *)
(* and the write are two steps, and the steps of other calls come          *)
(* between them.                                                           *)
(***************************************************************************)

(* the four collections that grow, as they are now *)
Collections ==
  [logs |-> logsFile, extracted |-> extractedFile, grabbed |-> grabbedFile,
   processed |-> processedFile]

StoreOps == {"addExtractedItem", "markExtractedItemSubmitted", "incrementStat", "markProcessed"}

StatKeys == {"linksFound", "submitted"}

NoCopy == [x |-> <<>>, s |-> NoStats, p |-> <<>>]

NewCall(op, arg, key) ==
  [k |-> "store", f |-> arg, pc |-> "read", op |-> op, key |-> key, w |-> NoCopy]

CallsOf(op) == {t \in Running : t.k = "store" /\ t.op = op}

StoreFrame == UNCHANGED <<now, fileVars, storeVars, daemonVars, failLeft,
                          lastSet, final, unscheduled, startLog,
                          grabbedFile, logsFile, jd>>

(* a run or a request calls the store; markExtractedItemSubmitted is       *)
(* called with the id that an addExtractedItem has returned                *)
StoreCall(op, arg, key) ==
  /\ evLeft > 0
  /\ evLeft' = evLeft - 1
  /\ CASE op = "addExtractedItem" -> arg = storeLog.nextId /\ key = ""
       [] op = "markExtractedItemSubmitted" ->
            /\ arg < storeLog.nextId /\ key = ""
            /\ \A t \in CallsOf("addExtractedItem") : t.f # arg
       [] op = "incrementStat" -> arg \in 1..MaxAmount /\ key \in StatKeys
       [] op = "markProcessed" -> arg \in 1..MaxItems /\ key = ""
  /\ tasks' = tasks (+) One(NewCall(op, arg, key))
  /\ storeLog' = [storeLog EXCEPT !.nextId = IF op = "addExtractedItem" THEN @ + 1 ELSE @,
                                  !.pre = Collections]
  /\ ev' = NoEv
  /\ UNCHANGED <<processedFile, extractedFile, statsFile>>
  /\ StoreFrame

(* the copy of its collection as the call changes it: x of extracted.json, *)
(* s of stats.json, p of processed.json                                    *)
Changed(t) ==
  CASE t.op = "addExtractedItem" ->
         [NoCopy EXCEPT !.x = ExtractedAfterAdd(extractedFile, t.f, now)]
    [] t.op = "markExtractedItemSubmitted" ->
         [NoCopy EXCEPT !.x = ExtractedAfterSubmit(extractedFile, t.f)]
    [] t.op = "incrementStat" ->
         [NoCopy EXCEPT !.s = StatsAfterIncrement(statsFile, t.key, t.f)]
    [] t.op = "markProcessed" ->
         [NoCopy EXCEPT !.p = ProcessedAfterMark(processedFile, t.f, now)]

(* the calls that return after the read, without a write:                  *)
(* markExtractedItemSubmitted when findIndex gives -1, markProcessed when  *)
(* the url is in the list                                                  *)
NothingToWrite(t) ==
  \/ t.op = "markExtractedItemSubmitted" /\
       \A j \in DOMAIN extractedFile : extractedFile[j].id # t.f
  \/ t.op = "markProcessed" /\ Changed(t).p = processedFile

(* readJSON has returned, the copy is changed *)
StoreRead(t) ==
  /\ t.k = "store" /\ t.pc = "read"
  /\ IF NothingToWrite(t)
     THEN /\ tasks' = tasks (-) One(t)
          /\ ev' = [NoEv EXCEPT !.type = "stored", !.f = t.f,
                                 !.how = IF t.op = "markProcessed" THEN "present" ELSE "missing"]
     ELSE /\ Replace(t, [t EXCEPT !.pc = "write", !.w = Changed(t)])
          /\ ev' = NoEv
  /\ storeLog' = [storeLog EXCEPT !.pre = Collections]
  /\ UNCHANGED <<processedFile, extractedFile, statsFile, evLeft>>
  /\ StoreFrame

(* writeJSON of the changed copy has returned, and the call with it *)
StoreWrite(t) ==
  /\ t.k = "store" /\ t.pc = "write"
  /\ tasks' = tasks (-) One(t)
  /\ extractedFile' = IF t.op \in {"addExtractedItem", "markExtractedItemSubmitted"}
                      THEN t.w.x ELSE extractedFile
  /\ statsFile' = IF t.op = "incrementStat" THEN t.w.s ELSE statsFile
  /\ processedFile' = IF t.op = "markProcessed" THEN t.w.p ELSE processedFile
  /\ storeLog' =
       [storeLog EXCEPT
          !.submitted = IF t.op = "markExtractedItemSubmitted" THEN @ \cup {t.f} ELSE @,
          !.sum = IF t.op = "incrementStat" THEN StatsAfterIncrement(@, t.key, t.f) ELSE @,
          !.high = [key \in DOMAIN @ |->
                      IF @[key] < statsFile'[key] THEN statsFile'[key] ELSE @[key]],
          !.pre = Collections]
  /\ ev' = [NoEv EXCEPT !.type = "stored", !.f = t.f, !.how = t.op]
  /\ UNCHANGED evLeft
  /\ StoreFrame

(* the process at work with empty collections and no call in progress *)
InitStore ==
  /\ now = Downtime
  /\ feedsFile = [f \in FeedIds |-> IdleFeed]
  /\ scheduleFile = [f \in FeedIds |-> Downtime + FeedInterval]
  /\ settingsFile = DefaultSettings
  /\ cronJobs = FeedIds
  /\ isRunning = TRUE
  /\ timers = TimersOn
  /\ AtRest
  /\ PipeAtRest
  /\ evLeft = StoreEvents
  /\ failLeft = 0

NextStore ==
  \/ \E op \in StoreOps, arg \in 1..StoreEvents, key \in StatKeys \cup {""} :
       StoreCall(op, arg, key)
  \/ \E t \in Running : StoreRead(t)
  \/ \E t \in Running : StoreWrite(t)

SpecStore == InitStore /\ [][NextStore]_vars

-----------------------------------------------------------------------------
(***************************************************************************)
(* Retention: one collection grows by inserts that follow one another,     *)
(* each call returning before the next begins, up to MaxOver inserts       *)
(* beyond the cap of the collection.  The n-th insert adds the entry n:    *)
(* markProcessed the url n, addLog, addExtractedItem and addGrabbedItem    *)
(* the record with id n.                                                   *)
(***************************************************************************)

CapOf == [logs |-> LOGS_CAP, extracted |-> ITEMS_CAP, grabbed |-> ITEMS_CAP,
          processed |-> PROCESSED_CAP]

Inserted == storeLog.nextId - 1

Insert(c) ==
  /\ \A d \in (DOMAIN CapOf) \ {c} : Collections[d] = <<>>
  /\ Inserted < CapOf[c] + MaxOver
  /\ LET n == storeLog.nextId IN
       /\ logsFile' = IF c = "logs" THEN LogsAfterAdd(logsFile, n, now) ELSE logsFile
       /\ extractedFile' = IF c = "extracted" THEN ExtractedAfterAdd(extractedFile, n, now)
                           ELSE extractedFile
       /\ grabbedFile' = IF c = "grabbed" THEN GrabbedAfterAdd(grabbedFile, n, FALSE, now)
                         ELSE grabbedFile
       /\ processedFile' = IF c = "processed" THEN ProcessedAfterMark(processedFile, n, now)
                           ELSE processedFile
       /\ storeLog' = [storeLog EXCEPT !.nextId = n + 1, !.pre = Collections]
       /\ ev' = [NoEv EXCEPT !.type = "inserted", !.f = n, !.how = c]
  /\ UNCHANGED <<now, fileVars, storeVars, daemonVars, tasks, evLeft, failLeft,
                 lastSet, final, unscheduled, startLog, statsFile, jd>>

InitRetain ==
  /\ now = Downtime
  /\ feedsFile = [f \in FeedIds |-> IdleFeed]
  /\ scheduleFile = [f \in FeedIds |-> Downtime + FeedInterval]
  /\ settingsFile = DefaultSettings
  /\ cronJobs = FeedIds
  /\ isRunning = TRUE
  /\ timers = TimersOn
  /\ AtRest
  /\ PipeAtRest
  /\ evLeft = 0
  /\ failLeft = 0

NextRetain ==
  \/ Insert("logs")
  \/ Insert("extracted")
  \/ Insert("grabbed")
  \/ Insert("processed")

SpecRetain == InitRetain /\ [][NextRetain]_vars

-----------------------------------------------------------------------------
(***************************************************************************)
(* cleanupOldData over collections that hold up to MaxLen entries each,    *)
(* with timestamps from long ago (0) to now.  The call is a task that goes *)
(* through the four collections one after the other; `f` is cutoffTime,    *)
(* `res` the CleanupResult.                                                *)
(***************************************************************************)

(* x.filter(e => e.timestamp > cutoffTime) *)
Fresh(s, cutoffTime) ==
  LET keep(e) == e.timestamp > cutoffTime IN SelectSeq(s, keep)

CleanupCall(maxAge) ==
  /\ evLeft > 0
  /\ evLeft' = evLeft - 1
  /\ tasks' = tasks (+) One([k |-> "cleanup", f |-> now - maxAge, pc |-> "logs",
                            res |-> [c \in DOMAIN CapOf |-> 0]])
  /\ storeLog' = [storeLog EXCEPT !.pre = Collections]
  /\ ev' = NoEv
  /\ UNCHANGED <<now, fileVars, storeVars, daemonVars, failLeft, lastSet, final,
                 unscheduled, startLog, processedFile, grabbedFile, extractedFile,
                 statsFile, logsFile, jd>>

AfterCleanup == [logs |-> "extracted", extracted |-> "grabbed", grabbed |-> "processed",
                 processed |-> "done"]

(* one collection is read, filtered, and written when entries were removed *)
(* or, for processed.json, when it was of the old format: lines 489-509    *)
CleanupStep(t) ==
  /\ t.k = "cleanup" /\ t.pc # "done"
  /\ LET read == IF t.pc = "processed" THEN Migrated(processedFile, t.f - DAY)
                 ELSE Collections[t.pc]
         fresh == Fresh(read, t.f)
         after == [Collections EXCEPT ![t.pc] = fresh]
     IN /\ logsFile' = after.logs
        /\ extractedFile' = after.extracted
        /\ grabbedFile' = after.grabbed
        /\ processedFile' = after.processed
        /\ Replace(t, [t EXCEPT !.pc = AfterCleanup[t.pc],
                                !.res[t.pc] = Len(Collections[t.pc]) - Len(fresh)])
  /\ ev' = [NoEv EXCEPT !.type = "cleaned", !.how = t.pc]
  /\ UNCHANGED <<now, fileVars, storeVars, daemonVars, evLeft, failLeft, lastSet, final,
                 unscheduled, startLog, statsFile, jd, storeLog>>

Stamps == UNION {[1..n -> 0..Downtime] : n \in 0..MaxLen}

InitCleanup ==
  /\ now = Downtime
  /\ feedsFile = [f \in FeedIds |-> IdleFeed]
  /\ scheduleFile = [f \in FeedIds |-> Downtime + FeedInterval]
  /\ settingsFile = DefaultSettings
  /\ cronJobs = FeedIds
  /\ isRunning = TRUE
  /\ timers = TimersOn
  /\ AtRest
  /\ \E l \in Stamps : logsFile = [j \in DOMAIN l |-> [id |-> j, timestamp |-> l[j]]]
  /\ \E x \in Stamps :
       extractedFile = [j \in DOMAIN x |-> [id |-> j, submitted |-> FALSE, timestamp |-> x[j]]]
  /\ \E g \in Stamps :
       grabbedFile = [j \in DOMAIN g |-> [link |-> j, hasDownload |-> FALSE, timestamp |-> g[j]]]
  /\ \E p \in Stamps : processedFile = [j \in DOMAIN p |-> [url |-> j, timestamp |-> p[j]]]
  /\ statsFile = NoStats
  /\ jd = JdAtRest
  /\ storeLog = NoStoreLog
  /\ evLeft = 1
  /\ failLeft = 0

NextCleanup ==
  \/ \E maxAge \in 1..MaxAge : CleanupCall(maxAge)
  \/ \E t \in Running : CleanupStep(t)

SpecCleanup == InitCleanup /\ [][NextCleanup]_vars

-----------------------------------------------------------------------------
(***************************************************************************)
(* processed.json in the old format, a bare list of urls, and the calls    *)
(* that read it: isProcessed, markProcessed, and cleanupOldData, which     *)
(* start() runs before anything else.                                      *)
(***************************************************************************)

(* storage.isProcessed(url): one readJSON, no write *)
CheckProcessed(url) ==
  /\ evLeft > 0
  /\ evLeft' = evLeft - 1
  /\ ev' = [NoEv EXCEPT !.type = "isProcessed", !.f = url,
                        !.how = IF IsProcessed(processedFile, url) THEN "yes" ELSE "no"]
  /\ UNCHANGED <<now, fileVars, storeVars, daemonVars, tasks, failLeft, lastSet, final,
                 unscheduled, startLog, pipeVars>>

InitLegacy ==
  /\ now = Downtime
  /\ feedsFile = [f \in FeedIds |-> IdleFeed]
  /\ scheduleFile = [f \in FeedIds |-> Downtime + FeedInterval]
  /\ settingsFile = DefaultSettings
  /\ cronJobs = FeedIds
  /\ isRunning = TRUE
  /\ timers = TimersOn
  /\ AtRest
  /\ \E n \in 1..MaxItems :
       /\ processedFile = [j \in 1..n |-> [url |-> j, timestamp |-> None]]
       /\ storeLog = [NoStoreLog EXCEPT !.legacy = 1..n]
  /\ grabbedFile = <<>>
  /\ extractedFile = <<>>
  /\ logsFile = <<>>
  /\ statsFile = NoStats
  /\ jd = JdAtRest
  /\ evLeft = StoreEvents
  /\ failLeft = 0

NextLegacy ==
  \/ \E url \in 1..MaxItems : CheckProcessed(url)
  \/ \E url \in 1..MaxItems : StoreCall("markProcessed", url, "")
  \/ \E t \in Running : StoreRead(t)
  \/ \E t \in Running : StoreWrite(t)
  \/ \E maxAge \in 1..MaxAge : CleanupCall(maxAge)
  \/ \E t \in Running : CleanupStep(t)

SpecLegacy == InitLegacy /\ [][NextLegacy]_vars

-----------------------------------------------------------------------------
(***************************************************************************)
(* clearEntries: five writeJSON calls one after the other, over            *)
(* collections that hold an entry or none, counters that are zero or not,  *)
(* and settings as stored.  Two requests may overlap.                      *)
(***************************************************************************)

(* what clearEntries writes to the collection c *)
M_ClearTo(c) ==
  IF c = "stats" THEN [NoStats EXCEPT !.totalScraped = statsFile.totalScraped] ELSE <<>>

ClearTo(c) == IF c = "stats" THEN NoStats ELSE <<>>

AfterClear == [logs |-> "stats", stats |-> "processed", processed |-> "extracted",
               extracted |-> "grabbed", grabbed |-> "done"]

ClearCall ==
  /\ evLeft > 0
  /\ evLeft' = evLeft - 1
  /\ tasks' = tasks (+) One([k |-> "clear", f |-> 0, pc |-> "logs"])
  /\ storeLog' = [storeLog EXCEPT !.pre = Collections, !.sum = statsFile]
  /\ ev' = NoEv
  /\ UNCHANGED <<now, fileVars, storeVars, daemonVars, failLeft, lastSet, final,
                 unscheduled, startLog, processedFile, grabbedFile, extractedFile,
                 statsFile, logsFile, jd>>

(* one writeJSON of clearEntries; the call returns after the last one *)
ClearStep(t) ==
  /\ t.k = "clear"
  /\ logsFile' = IF t.pc = "logs" THEN ClearTo(t.pc) ELSE logsFile
  /\ statsFile' = IF t.pc = "stats" THEN ClearTo(t.pc) ELSE statsFile
  /\ processedFile' = IF t.pc = "processed" THEN ClearTo(t.pc) ELSE processedFile
  /\ extractedFile' = IF t.pc = "extracted" THEN ClearTo(t.pc) ELSE extractedFile
  /\ grabbedFile' = IF t.pc = "grabbed" THEN ClearTo(t.pc) ELSE grabbedFile
  /\ IF AfterClear[t.pc] = "done"
     THEN /\ tasks' = tasks (-) One(t)
          /\ ev' = [NoEv EXCEPT !.type = "cleared", !.how = t.pc]
     ELSE /\ Replace(t, [t EXCEPT !.pc = AfterClear[t.pc]])
          /\ ev' = [NoEv EXCEPT !.type = "clearing", !.how = t.pc]
  /\ UNCHANGED <<now, fileVars, storeVars, daemonVars, evLeft, failLeft, lastSet, final,
                 unscheduled, startLog, jd, storeLog>>

(* a collection with n entries, stamped with the time they were added *)
Filled(n) == [j \in 1..n |-> [id |-> j, timestamp |-> Downtime]]

InitClear ==
  /\ now = Downtime
  /\ feedsFile = [f \in FeedIds |-> IdleFeed]
  /\ scheduleFile \in [FeedIds -> {Downtime, Downtime + FeedInterval}]
  /\ settingsFile \in {DefaultSettings, [checkInterval |-> FeedInterval]}
  /\ cronJobs = FeedIds
  /\ isRunning = TRUE
  /\ timers = TimersOn
  /\ AtRest
  /\ \E n \in 0..1 : logsFile = Filled(n)
  /\ \E n \in 0..1 :
       extractedFile = [j \in 1..n |-> [id |-> j, submitted |-> TRUE, timestamp |-> Downtime]]
  /\ \E n \in 0..1 :
       grabbedFile = [j \in 1..n |-> [link |-> j, hasDownload |-> TRUE, timestamp |-> Downtime]]
  /\ \E n \in 0..1 : processedFile = [j \in 1..n |-> [url |-> j, timestamp |-> Downtime]]
  /\ \E n \in 0..1 : statsFile = [totalScraped |-> n, linksFound |-> n, submitted |-> n]
  /\ jd = JdAtRest
  /\ storeLog = NoStoreLog
  /\ evLeft = MaxEvents
  /\ failLeft = 0

NextClear ==
  \/ ClearCall
  \/ \E t \in Running : ClearStep(t)

SpecClear == InitClear /\ [][NextClear]_vars

-----------------------------------------------------------------------------
(* Claims about one collection file, checked under SpecFile *)

Interrupted == wlast \in {"failed", "crashed"}

(* C4: a writeJSON that is interrupted before its final rename - in the    *)
(* backup copy, while or after writing the temporary file, in the          *)
(* verification - leaves the live file with the content it had when the    *)
(* write began, and the next read returns that committed content (its      *)
(* value, or the default when no file had been committed).                 *)
C4_AtomicWrite ==
  /\ (wpc \in MidWrite \/ (Interrupted /\ rd.kind = "none")) => live = preWrite
  /\ (rd.kind # "none" /\ Interrupted /\ rd.err = "none" /\ Parses(preWrite))
       => (rd.kind = "value" /\ rd.val = ParseJSON(preWrite) /\ live = preWrite)
  /\ (rd.kind # "none" /\ Interrupted /\ rd.err = "none" /\ preWrite = Absent)
       => (rd.kind = "default" /\ live = Absent)

(* a read after a crash that left a complete temporary file with other content *)
C4_Witness ==
  /\ wlast = "crashed"
  /\ rd.kind = "value"
  /\ Parses(preWrite)
  /\ Parses(tmp)
  /\ tmp # preWrite
  /\ rd.val = ParseJSON(preWrite)

ParsableBackups == {t \in DOMAIN backups : Parses(backups[t])}

C6_ReadNeverThrows == rd.kind # "throw"

NothingRecoverable(r) ==
  \/ r.pre.kind \in {"absent", "blank"}
  \/ r.pre.kind = "garbage" /\ (ParsableBackups \ {r.bkErr}) = {}

(* C6 as amended: a read raises an error exactly when ensureDataDir fails  *)
(* or reading the live file fails with an error other than 'not found';    *)
(* for every content of the file and of its backups (missing, blank,       *)
(* unparsable with or without a usable backup, a backup that cannot be     *)
(* read) it returns a value, the default exactly when nothing is           *)
(* recoverable.                                                            *)
C6_ReadThrowsOnlyOnFsError ==
  rd.kind # "none" =>
    /\ rd.kind = "throw" <=> rd.err \in {"MKDIR", "EIO"}
    /\ rd.err = "none" =>
         /\ rd.kind \in {"value", "default"}
         /\ rd.kind = "default" <=> NothingRecoverable(rd)
         /\ rd.kind = "default" => rd.val = DefaultValue

(* an unparsable file whose backups are all unparsable reads as the default *)
C6_Witness ==
  /\ rd.kind = "default"
  /\ rd.pre.kind = "garbage"
  /\ rd.err = "none"
  /\ DOMAIN backups # {}
  /\ ParsableBackups = {}


-----------------------------------------------------------------------------
(* Claims about the scheduler, checked under Spec, SpecStart and SpecCap *)

EntryOf(f) == IF f \in DOMAIN scheduleFile THEN scheduleFile[f] ELSE None

(* C1: single-flight.  In every reachable state at most one pipeline run   *)
(* (scrapeFeed past its guards and in the in-flight set) is in flight for  *)
(* any feed id.                                                            *)
C1_SingleFlight == \A f \in FeedIds : InFlightCount(f) <= 1

(* a run begun by a tick and a run begun by a manual scrape request, of    *)
(* one feed, both in flight; stop() was never called                       *)
C1_Witness ==
  /\ isRunning
  /\ \E f \in FeedIds : \E t1, t2 \in InFlight(f) : t1.org = "tick" /\ t2.org = "manual"

(* C2: global cap.  In every reachable state the number of pipeline runs   *)
(* in flight, over all feeds, is at most MAX_CONCURRENT_FEEDS.             *)
C2_GlobalCap == InFlightTotal <= MAX_CONCURRENT_FEEDS

C2_Witness == InFlightTotal = MAX_CONCURRENT_FEEDS + 1 /\ runningFeedCount > MAX_CONCURRENT_FEEDS

(* C3: per-collection serialization.  The mutations of the schedule        *)
(* collection take effect as if one after the other: the entry of every    *)
(* feed is what the last completed mutation of that feed's entry made it   *)
(* (set to a nextRun, or removed), no update is lost.                      *)
C3_NoLostUpdate == \A f \in FeedIds : EntryOf(f) = lastSet[f]

(* an entry was lost to the write of another feed's entry, with no store failure *)
C3_Witness ==
  /\ failLeft = MaxFail
  /\ unscheduled = {}
  /\ \E f \in FeedIds : EntryOf(f) # lastSet[f]

StartRunPending(f) ==
  \E t \in Running : t.f = f /\ t.org \in {"recover", "start"} /\ t.pc = "getFeed"

(* C7: startup catch-up.  When start() has completed (and no call it made  *)
(* is still ahead of its run), every existing feed whose persisted nextRun *)
(* was past has had exactly one pipeline run started by that start().      *)
C7_OneCatchUp ==
  startLog.done =>
    \A f \in startLog.overdue : StartRunPending(f) \/ startLog.runs[f] = 1

(* the catch-up run of an overdue feed has ended, and the run that start()  *)
(* begins for the same feed is its second                                  *)
C7_Witness ==
  /\ ev.type = "begin"
  /\ ev.f \in startLog.overdue
  /\ startLog.runs[ev.f] = 2
  /\ InFlightCount(ev.f) = 1

RunEnded == ev.type = "end" /\ ev.how # "notStarted"

C9_RemovedStaysRemoved ==
  \A f \in unscheduled : f \notin DOMAIN scheduleFile /\ ~HasJob(f)

(* the run of a removed feed has ended and has put the feed's entry back *)
C9_Witness ==
  /\ RunEnded /\ ev.how = "full"
  /\ ev.f \in unscheduled
  /\ ev.f \notin DOMAIN feedsFile
  /\ ev.f \in DOMAIN scheduleFile
  /\ \A t \in Running : t.f # ev.f

(* C10: when no store write has failed, a feed whose run has ended and     *)
(* that has no run in flight has the status that run ended with: error     *)
(* after an unhandled error, idle otherwise.                               *)
C10_FinalStatus ==
  failLeft = MaxFail =>
    \A f \in DOMAIN feedsFile :
      (final[f] # "none" /\ InFlightCount(f) = 0) => feedsFile[f].status = final[f]

(* a feed whose run has ended is left at 'scraping' by the run of another   *)
(* feed; no feed was deleted and nothing of the feed is in flight          *)
C10_Witness ==
  /\ failLeft = MaxFail
  /\ DOMAIN feedsFile = FeedIds
  /\ \A t \in Running : t.k = "scrape"
  /\ \E f \in FeedIds :
       /\ final[f] = "idle"
       /\ feedsFile[f].status = "scraping"
       /\ \A t \in Running : t.f # f

-----------------------------------------------------------------------------
(* Claims about the item pipeline, checked under SpecPipe *)

(* the runs whose item loop has ended *)
LoopEnded(t) == t.k = "pipe" /\ t.pc = "done" /\ t.out[Len(t.batch)] # "pending"

(* C11: when the item loop of a run has ended, the link of every item of   *)
(* the batch is in the processed collection, whatever the extraction gave: *)
(* links, no links, or a fetch that failed after its retries.              *)
C11_EveryItemProcessed ==
  \A t \in Running : LoopEnded(t) =>
    \A j \in DOMAIN t.batch : t.batch[j] \in Urls(processedFile)

(* a run has ended whose fetches all succeeded, with a submission that     *)
(* failed among them, and all its links are processed                      *)
C11_Witness ==
  \E t \in Running :
    /\ LoopEnded(t)
    /\ \A j \in DOMAIN t.batch : t.out[j] \in {"links", "none"}
    /\ ev.type = "itemEnd" /\ ev.how = "links"
    /\ ~jd.connected /\ statsFile.submitted = 0
    /\ \A j \in DOMAIN t.batch : t.batch[j] \in Urls(processedFile)

GrabbedCount(link, hasDownload) ==
  Cardinality({j \in DOMAIN grabbedFile :
                 grabbedFile[j].link = link /\ grabbedFile[j].hasDownload = hasDownload})

(* C12: when the item loop of a run has ended, the grabbed collection      *)
(* holds exactly one record per item of the batch, with hasDownload true   *)
(* exactly for the items whose extraction gave a link, the items whose     *)
(* fetch failed included.                                                  *)
C12_OneGrabbedPerItem ==
  \A t \in Running : LoopEnded(t) =>
    \A u \in 1..MaxItems, h \in BOOLEAN :
      GrabbedCount(u, h) =
        Cardinality({j \in DOMAIN t.batch : t.batch[j] = u /\ (t.out[j] = "links") = h})

(* a run has ended with a record for each of its two items, one with a     *)
(* download and one without                                                *)
C12_Witness ==
  \E t \in Running :
    /\ LoopEnded(t)
    /\ Len(t.batch) = 2
    /\ t.out[1] = "links" /\ t.out[2] = "none"
    /\ Len(grabbedFile) = 2
    /\ grabbedFile[2].hasDownload /\ ~grabbedFile[1].hasDownload

(* C13: a feed fetch that ends with a format error (the url answers with   *)
(* a document that is not a feed) was attempted exactly once: no retry and *)
(* no backoff sleep went before the failure.                               *)
C13_FormatErrorNotRetried ==
  (ev.type = "parseFailed" /\ ev.how = "invalidFeed") => (ev.a = 1 /\ ev.b = 0)

(* the fetch gave a format error on every attempt and ended after          *)
(* MAX_RETRIES attempts and the sleeps between them                        *)
C13_Witness ==
  /\ ev.type = "parseFailed" /\ ev.how = "invalidFeed"
  /\ ev.c = 1 /\ ev.a = MAX_RETRIES /\ ev.b = MAX_RETRIES - 1

EnsureFailed == ev.type = "submitEnd" /\ ev.how \in {"connectFailed", "listFailed", "noDevices"}

(* C14: when ensureJDConnection fails at one of its steps (the             *)
(* authentication, the device listing, an empty device list), the          *)
(* connection is left disconnected with no device id, the attempt counter  *)
(* is one more than before the call and the time of the last failure is    *)
(* the time of this failure.                                               *)
C14_FailureRecorded ==
  EnsureFailed =>
    /\ ~jd.connected
    /\ jd.deviceId = None
    /\ jd.attempts = ev.a + 1
    /\ jd.lastError = now

(* the device listing has failed after a failed and then a successful      *)
(* authentication: disconnected, but the counter is zero and the time of   *)
(* the last failure is that of the earlier one                             *)
C14_Witness ==
  /\ ev.type = "submitEnd" /\ ev.how = "listFailed"
  /\ ev.a = 1
  /\ ~jd.connected /\ jd.deviceId = None
  /\ jd.attempts = 0 /\ jd.lastError < now

SubmitFailed ==
  /\ ev.type = "submitEnd"
  /\ ev.how \in {"backoff", "connectFailed", "listFailed", "noDevices", "addFailed"}

(* C15: when a submission fails, because the connection is not             *)
(* established or because addLinks fails, addLinks was called at most once *)
(* for the link, the connection is disconnected after a failure of         *)
(* addLinks, the submitted counter is what it was before the submission,   *)
(* the ExtractedItem of the link still has submitted = false, and the run  *)
(* goes on with the item: its next step is markProcessed.                  *)
C15_FailedSubmission ==
  SubmitFailed =>
    /\ ev.b <= 1
    /\ ev.how = "addFailed" => (~jd.connected /\ jd.deviceId = None)
    /\ statsFile.submitted = ev.c
    /\ \E t \in Running :
         /\ t.k = "pipe" /\ t.pc = "mark" /\ Url(t) = ev.f
         /\ \E j \in DOMAIN extractedFile :
              extractedFile[j].id = t.i /\ ~extractedFile[j].submitted

(* addLinks has failed for the second item of a run whose first item was   *)
(* submitted over the same connection                                      *)
C15_Witness ==
  /\ ev.type = "submitEnd" /\ ev.how = "addFailed"
  /\ ev.b = 1 /\ ev.c = 1
  /\ statsFile.submitted = 1
  /\ ~jd.connected
  /\ Len(extractedFile) = 2
  /\ ~extractedFile[1].submitted /\ extractedFile[2].submitted

-----------------------------------------------------------------------------
(* Claims about concurrent calls of the store, checked under SpecStore *)

(* C16: the submitted flag of an ExtractedItem goes one way: once a        *)
(* markExtractedItemSubmitted of the item has returned true, every record  *)
(* of the item in extracted.json has submitted = true, however the calls   *)
(* of addExtractedItem and markExtractedItemSubmitted interleave.          *)
C16_SubmittedOneWay ==
  \A id \in storeLog.submitted : \A j \in DOMAIN extractedFile :
    extractedFile[j].id = id => extractedFile[j].submitted

(* an addExtractedItem of another item has just written its copy, and an   *)
(* item that was marked submitted is in the collection as not submitted    *)
C16_Witness ==
  /\ ev.type = "stored" /\ ev.how = "addExtractedItem"
  /\ \E j \in DOMAIN extractedFile :
       /\ extractedFile[j].id \in storeLog.submitted
       /\ extractedFile[j].id # ev.f
       /\ ~extractedFile[j].submitted

(* C17: a counter of stats.json never goes down, and when no incrementStat *)
(* is in progress every counter is the sum of the amounts of the calls     *)
(* made so far, concurrent ones included.                                  *)
C17_CountersAdd ==
  \A key \in StatKeys :
    /\ statsFile[key] >= storeLog.high[key]
    /\ CallsOf("incrementStat") = {} => statsFile[key] = storeLog.sum[key]

(* all calls have returned and the submitted counter is below both the sum *)
(* of the amounts and a value it had before                                *)
C17_Witness ==
  /\ CallsOf("incrementStat") = {}
  /\ statsFile.submitted < storeLog.high.submitted
  /\ storeLog.high.submitted < storeLog.sum.submitted

MarkedPresent == ev.type = "stored" /\ ev.how = "present"

(* C18: processed.json never holds a url twice, and a markProcessed of a   *)
(* url that is in the collection leaves the collection as it was.          *)
C18_NoDuplicateUrl ==
  /\ \A i, j \in DOMAIN processedFile :
       processedFile[i].url = processedFile[j].url => i = j
  /\ MarkedPresent => (ev.f \in Urls(processedFile) /\ processedFile = storeLog.pre.processed)

(* a markProcessed of a url has returned without a write while the         *)
(* collection holds that url and another one                               *)
C18_Witness ==
  /\ MarkedPresent
  /\ Len(processedFile) = 2
  /\ ev.f \in Urls(processedFile)

-----------------------------------------------------------------------------
(* Claims about retention and cleanup, checked under SpecRetain and        *)
(* SpecCleanup                                                             *)

Kept(c) == IF Inserted < CapOf[c] THEN Inserted ELSE CapOf[c]

Grown(c) == \A d \in (DOMAIN CapOf) \ {c} : Collections[d] = <<>>

(* C19: after n inserts that follow one another, processed.json holds the  *)
(* min(n, 1000) urls added last, oldest first; logs.json the min(n, 100)   *)
(* entries added last, newest first; extracted.json and grabbed.json the   *)
(* min(n, 500) entries added last, newest first.                           *)
C19_Retention ==
  /\ Grown("processed") =>
       /\ Len(processedFile) = Kept("processed")
       /\ \A j \in DOMAIN processedFile :
            processedFile[j].url = Inserted - Len(processedFile) + j
  /\ Grown("logs") =>
       /\ Len(logsFile) = Kept("logs")
       /\ \A j \in DOMAIN logsFile : logsFile[j].id = Inserted - j + 1
  /\ Grown("extracted") =>
       /\ Len(extractedFile) = Kept("extracted")
       /\ \A j \in DOMAIN extractedFile : extractedFile[j].id = Inserted - j + 1
  /\ Grown("grabbed") =>
       /\ Len(grabbedFile) = Kept("grabbed")
       /\ \A j \in DOMAIN grabbedFile : grabbedFile[j].link = Inserted - j + 1

(* processed.json is full and MaxOver of the oldest urls have been evicted *)
C19_Witness ==
  /\ Inserted = PROCESSED_CAP + MaxOver
  /\ Len(processedFile) = PROCESSED_CAP
  /\ processedFile[1].url = MaxOver + 1
  /\ processedFile[PROCESSED_CAP].url = Inserted

CleanupDone(t) == t.k = "cleanup" /\ t.pc = "done"

(* the entries that are not strictly older than the cutoff *)
NotOlder(s, cutoffTime) ==
  LET keep(e) == e.timestamp >= cutoffTime IN SelectSeq(s, keep)

(* C20: when cleanupOldData has returned, each of the four collections     *)
(* holds, in their order, exactly the entries it held whose timestamp is   *)
(* not strictly older than the cutoff time, an entry whose timestamp is    *)
(* the cutoff time included, and the count returned for the collection is  *)
(* the number of entries removed from it.                                  *)
C20_CleanupStrictlyOlder ==
  \A t \in Running : CleanupDone(t) =>
    \A c \in DOMAIN CapOf :
      /\ Collections[c] = NotOlder(storeLog.pre[c], t.f)
      /\ t.res[c] = Len(storeLog.pre[c]) - Len(Collections[c])

(* the call has returned, and an entry of the logs whose timestamp was the *)
(* cutoff time is gone and counted, next to an older one                   *)
C20_Witness ==
  \E t \in Running :
    /\ CleanupDone(t)
    /\ Len(storeLog.pre.logs) = 2
    /\ storeLog.pre.logs[1].timestamp = t.f
    /\ storeLog.pre.logs[2].timestamp < t.f
    /\ logsFile = <<>>
    /\ t.res.logs = 2

-----------------------------------------------------------------------------
(* Claims about the old format of processed.json, checked under SpecLegacy *)

(* isProcessed, markProcessed or the processed part of cleanupOldData has  *)
(* just returned                                                           *)
ReadProcessed ==
  \/ ev.type = "isProcessed"
  \/ ev.type = "stored"
  \/ ev.type = "cleaned" /\ ev.how = "processed"

(* C21: when a call that reads processed.json (isProcessed, markProcessed, *)
(* cleanupOldData) has returned, the file is no longer a bare list of urls *)
(* but a list of {url, timestamp} records, and every url of the old list   *)
(* is still reported as processed.                                         *)
C21_MigrationKeepsUrls ==
  ReadProcessed =>
    /\ \A j \in DOMAIN processedFile : processedFile[j].timestamp # None
    /\ \A u \in storeLog.legacy : IsProcessed(processedFile, u)

(* cleanupOldData has gone through the old list, and no url of it is left *)
C21_Witness ==
  /\ ev.type = "cleaned" /\ ev.how = "processed"
  /\ Cardinality(storeLog.legacy) = MaxItems
  /\ Len(storeLog.pre.processed) = MaxItems
  /\ processedFile = <<>>
  /\ \A u \in storeLog.legacy : ~IsProcessed(processedFile, u)

-----------------------------------------------------------------------------
(* Claims about clearEntries, checked under SpecClear *)

(* C22: no writeJSON of clearEntries changes feeds.json, settings.json or  *)
(* schedule.json, and when clearEntries returns, logs, processed urls,     *)
(* extracted items and grabbed items are empty and every counter of the    *)
(* stats is zero.                                                          *)
C22_ClearEntries ==
  [][ev'.type \in {"clearing", "cleared"} =>
       /\ UNCHANGED <<feedsFile, settingsFile, scheduleFile>>
       /\ ev'.type = "cleared" =>
            /\ logsFile' = <<>> /\ processedFile' = <<>>
            /\ extractedFile' = <<>> /\ grabbedFile' = <<>>
            /\ \A key \in DOMAIN statsFile' : statsFile'[key] = 0]_vars

(* clearEntries has returned; before it, nothing was empty or zero, and    *)
(* the settings were not the default ones                                  *)
C22_Witness ==
  /\ ev.type = "cleared"
  /\ \A c \in DOMAIN storeLog.pre : storeLog.pre[c] # <<>>
  /\ \A key \in DOMAIN storeLog.sum : storeLog.sum[key] > 0
  /\ settingsFile # DefaultSettings
  /\ DOMAIN scheduleFile = FeedIds

-----------------------------------------------------------------------------
(* Claims about start() and stop(), checked under SpecLife *)

(* C23: a call of start() while isRunning is true does nothing: the tick   *)
(* jobs, the heartbeat and maintenance jobs, the calls in progress (no     *)
(* run is started), the in-flight set and every collection of the store    *)
(* are as before the call.                                                 *)
C23_StartWhileRunning ==
  [][(ev'.type = "start" /\ isRunning) =>
       /\ ev'.how = "noop"
       /\ UNCHANGED <<storeVars, daemonVars, tasks, fileVars, pipeVars>>]_vars

(* start() was called and returned at once, while the start() before it    *)
(* has not yet created the heartbeat and maintenance jobs                  *)
C23_Witness ==
  /\ ev.type = "start" /\ ev.how = "noop"
  /\ isRunning
  /\ \E t \in Running : t.k = "start" /\ t.pc = "init"


(* stop() has returned, or start() was never called, and no start() has    *)
(* been called since                                                       *)
Stopped == ~isRunning /\ \A t \in Running : t.k # "stop"

(* C24: while the daemon is Stopped and no stop() is in progress, no tick  *)
(* job, heartbeat job or maintenance job is installed and the in-flight    *)
(* set is empty.                                                           *)
C24_StoppedIsQuiet ==
  Stopped =>
    /\ cronJobs = {}
    /\ \A f \in FeedIds : strayJobs[f] = 0
    /\ ~timers.set /\ timers.running = 0
    /\ runningFeeds = {}

(* stop() was called while start() was initializing and has returned;      *)
(* start() has gone on and has completed, with all its jobs installed      *)
C24_Witness ==
  /\ Stopped
  /\ ev.type = "started"
  /\ timers.set /\ timers.running = 1
  /\ cronJobs = {1}
  /\ \A f \in FeedIds : strayJobs[f] = 0


-----------------------------------------------------------------------------
(* Claims about runs at the same time, checked under SpecTwoRuns *)

(* the head of ensureJDConnection has been passed by a run with            *)
(* credentials                                                             *)
Ensuring == ev'.type = "ensure" \/ (ev'.type = "submitEnd" /\ ev'.how = "backoff")

(* C26: when ensureJDConnection is called less than JD_RETRY_WAIT after    *)
(* the time of the last recorded connection failure, it returns false      *)
(* with no call of connect or listDevices and leaves the connection state  *)
(* as it is; when it is called later and there is no connection, it calls  *)
(* connect.                                                                *)
C26_Backoff ==
  [][Ensuring =>
       IF now - jd.lastError < JD_RETRY_WAIT
       THEN ev'.type = "submitEnd" /\ ev'.how = "backoff" /\ jd' = jd
       ELSE ev'.type = "ensure" /\ (~jd.connected => ev'.how = "connect")]_vars

(* a run calls connect although the connect of the other run has failed at *)
(* this very time: the connect of this run had succeeded after that and    *)
(* has reset the attempts, and its device listing has found nothing        *)
C26_Witness ==
  /\ ev.type = "ensure" /\ ev.how = "connect"
  /\ now - jd.lastError < JD_RETRY_WAIT
  /\ jd.attempts = 0 /\ ~jd.connected
  /\ \E t \in Running : t.k = "pipe" /\ t.pc = "connect"

(* the calls of addLinks that the runs have issued for the article url *)
AddLinkCalls(url) ==
  {<<t, j>> \in UNION {{t} \X DOMAIN t.sent : t \in {r \in Running : r.k = "pipe"}} :
     t.sent[j] = url}

(* C29: the add-link call is issued at most once for an article url over   *)
(* all runs, and a run that has partitioned its items holds no item whose  *)
(* url was in the processed collection then.                               *)
C29_AtMostOnce ==
  /\ \A url \in 1..MaxItems : Cardinality(AddLinkCalls(url)) <= 1
  /\ ev.type \in {"parsed", "noNewItems"} =>
       \A t \in Running : (t.k = "pipe" /\ t.f = ev.f) =>
         \A j \in DOMAIN t.batch : ~IsProcessed(processedFile, t.batch[j])

(* both feeds list the article 1, both runs have partitioned their items   *)
(* before either has marked it, and both have issued addLinks for it       *)
C29_Witness ==
  /\ Cardinality(AddLinkCalls(1)) = 2
  /\ \A t \in Running : t.pc = "done" /\ 1 \in {t.sent[j] : j \in DOMAIN t.sent}
  /\ Cardinality({j \in DOMAIN processedFile : processedFile[j].url = 1}) = 1

-----------------------------------------------------------------------------
(* Claims about createBackup, checked under SpecBackup *)

(* C28: when createBackup has returned inside a writeJSON that found the   *)
(* live file, the backups hold one with the name of this moment and the    *)
(* content of the live file; and whenever createBackup has returned there  *)
(* are at most MAX_BACKUPS backups, every one of them newer than every     *)
(* backup that is gone.                                                    *)
C28_BackupRotation ==
  [][(wpc = "backup" /\ wpc' = "temp") =>
       /\ live # Absent => (now \in DOMAIN backups' /\ backups'[now] = live)
       /\ Cardinality(DOMAIN backups') <= MAX_BACKUPS
       /\ \A t \in ((DOMAIN backups) \cup {now}) \ DOMAIN backups' :
            \A u \in DOMAIN backups' : t < u]_vars

(* copyFile has failed inside createBackup and the write has gone on: the  *)
(* file has a new content and no backup holds the one it had               *)
C28_Witness ==
  /\ wlast = "committed"
  /\ preWrite # Absent /\ live # preWrite
  /\ \A t \in DOMAIN backups : backups[t] # preWrite

-----------------------------------------------------------------------------
(* Claims about the tick callback and scheduleFeed, checked under Spec *)

(* C27: while the daemon is Stopped and no stop() is in progress, a tick   *)
(* callback does not call scrapeFeed, so no run begins from a tick.        *)
C27_NoRunWhileStopped ==
  (ev.type = "tick" /\ ev.how = "call") => ~Stopped

(* the tick had fired before stop() was called and was waiting for         *)
(* getSchedule; after stop() has returned it finds the entry due and       *)
(* calls scrapeFeed, which passes its guards                               *)
C27_Witness ==
  /\ ev.type = "tick" /\ ev.how = "call"
  /\ Stopped
  /\ cronJobs = {} /\ ~timers.set
  /\ ev.a <= ev.b
  /\ \E t \in Running : t.k = "scrape" /\ t.org = "tick" /\ t.f = ev.f /\ t.pc = "getFeed"


(* the calls of scrapeFeed that have passed the guards and have not ended *)
Runs == CopiesSum({t \in Running : t.k = "scrape"})

(* C25: when scheduleFeed has stored the entry, the entry of the feed has  *)
(* nextRun = the time read at line 335 + the feed's interval, the feed     *)
(* has a tick job in the map, and scrapeFeed has been called once (a run   *)
(* is in progress if the guards let it pass); when the feed does not exist *)
(* or the entry could not be stored, the schedule, the jobs and the runs   *)
(* are as they were when that was found.                                   *)
C25_ScheduleFeed ==
  [][/\ ev'.type = "scheduled" =>
          /\ ev'.f \in DOMAIN scheduleFile'
          /\ scheduleFile'[ev'.f] = ev'.b + Interval(ev'.f)
          /\ ev'.f \in cronJobs'
          /\ Runs' = Runs + (IF GuardsPass(ev'.f) THEN 1 ELSE 0)
     /\ ev'.type \in {"noFeed", "notScheduled"} =>
          /\ UNCHANGED <<storeVars, daemonVars>>
          /\ Runs' = Runs]_vars

(* scheduleFeed of a manual request has stored the entry and installed the *)
(* job, and its call of scrapeFeed has passed the guards                   *)
C25_Witness ==
  /\ ev.type = "scheduled"
  /\ scheduleFile[ev.f] = ev.b + FeedInterval
  /\ ev.f \in cronJobs
  /\ \E t \in Running : t.k = "scrape" /\ t.f = ev.f /\ t.org = "manual" /\ t.pc = "getFeed"


(* C30: a tick callback calls scrapeFeed only when the feed has an entry   *)
(* in the schedule it has read and that entry's nextRun is not after the   *)
(* time of the test; otherwise it starts no run and leaves the store, the  *)
(* jobs, the in-flight set and the running count as they are.              *)
C30_TickGating ==
  [][ev'.type = "tick" =>
       /\ ev'.how = "call" =>
            /\ ev'.f \in DOMAIN scheduleFile
            /\ scheduleFile[ev'.f] <= now
       /\ ev'.how # "call" =>
            /\ ev'.f \notin DOMAIN scheduleFile \/ scheduleFile[ev'.f] > now
            /\ Runs' = Runs
            /\ UNCHANGED <<storeVars, daemonVars, fileVars, pipeVars>>]_vars

(* a tick has found the entry of its feed not yet due and has done nothing *)
C30_Witness ==
  /\ ev.type = "tick" /\ ev.how = "skip"
  /\ ev.f \in DOMAIN scheduleFile
  /\ ev.a = scheduleFile[ev.f]
  /\ ev.a > ev.b

-----------------------------------------------------------------------------
(* Claims about start() with the tick jobs at work, checked under          *)
(* SpecRecover and SpecStart                                               *)

(* the catch-up runs of feed f that recoverSchedule has triggered and that *)
(* have not ended                                                          *)
CatchUpOf(f) == {t \in Running : t.k = "scrape" /\ t.f = f /\ t.org = "recover"}

C32_NoOrphanEntry ==
  (startLog.done /\ Running = {}) => DOMAIN scheduleFile \subseteq DOMAIN feedsFile

(* start() and all its runs have finished, recoverSchedule has removed the *)
(* entry of the feed that is gone, and the entry is in the schedule again  *)
C32_Witness ==
  /\ startLog.done /\ Running = {}
  /\ MaxFeeds \notin DOMAIN feedsFile
  /\ lastSet[MaxFeeds] = None
  /\ MaxFeeds \in DOMAIN scheduleFile

-----------------------------------------------------------------------------
(* Claims about the connection to the download manager, checked under      *)
(* SpecPipe                                                                *)

(* C33: connection state well-formedness.  In every reachable state the    *)
(* connection is reported as connected (jdConnected) only if a device has  *)
(* been resolved (jdDeviceId and jdDeviceName, which are set and cleared   *)
(* together), and a connection that is not connected has no device id.     *)
C33_ConnectionWellFormed ==
  /\ jd.connected => jd.deviceId # None
  /\ ~jd.connected => jd.deviceId = None

(* ensureJDConnection between the return of connect and the return of      *)
(* listDevices: connected, and no device resolved                          *)
C33_Witness ==
  /\ jd.connected
  /\ jd.deviceId = None
  /\ \E t \in Running : t.k = "pipe" /\ t.pc = "listDevices"

-----------------------------------------------------------------------------
(* Claims about the guards of scrapeFeed, checked under SpecSkip *)

-----------------------------------------------------------------------------
(* Claims about the in-flight set and the running count, checked under     *)
(* SpecLife                                                                *)

(* C35: in every reachable state the running count (runningFeedCount,      *)
(* getHealth's runningCount) equals the size of the in-flight set          *)
(* (runningFeeds.size, getHealth's runningJobs), and both equal the number *)
(* of runs that are in flight.                                             *)
C35_CountIsSetIsRuns ==
  /\ runningFeedCount = Cardinality(runningFeeds)
  /\ runningFeedCount = InFlightTotal

(* after a stop() and a start(): the run begun before the stop() has just  *)
(* ended, and the run begun by the start() is in flight with the set empty *)
(* and the count at 0                                                      *)
C35_Witness ==
  /\ isRunning
  /\ ev.type = "end"
  /\ InFlightTotal = 1
  /\ runningFeeds = {}
  /\ runningFeedCount = 0

-----------------------------------------------------------------------------
(* Claims about the tick jobs, checked under SpecCap *)

(* C36: at most one tick job runs per feed, and every tick job that runs   *)
(* is the one that the job map holds for its feed, so that unscheduleFeed  *)
(* and stop() stop it.                                                     *)
C36_OneJobPerFeed == \A f \in FeedIds : strayJobs[f] = 0

(* two scheduleFeed calls of one feed have both returned from their write: *)
(* the map holds the job of the second, and the job of the first runs on   *)
(* outside the map                                                         *)
C36_Witness ==
  /\ ev.type = "scheduled"
  /\ ev.f \in cronJobs
  /\ strayJobs[ev.f] = 1
  /\ \A t \in Running : t.k # "sched"

-----------------------------------------------------------------------------
(* Claims about the end of a run, checked under SpecTerminating *)

(* C37: guard release.  When every I/O call terminates, every run that has *)
(* entered the in-flight set ends, whatever its outcome: a feed that is in *)
(* the in-flight set or has a run in flight comes to a state where it is   *)
(* not in the set and has no run in flight, and runs in flight lead to a   *)
(* state with no run in flight and no slot of the running count taken.     *)
C37_GuardRelease ==
  /\ \A f \in FeedIds :
       (f \in runningFeeds \/ InFlightCount(f) > 0)
         ~> (f \notin runningFeeds /\ InFlightCount(f) = 0)
  /\ (InFlightTotal > 0) ~> (InFlightTotal = 0 /\ runningFeedCount <= 0)

(* a run has ended by an error raised inside its error handler, and its    *)
(* feed is out of the in-flight set with no run in flight                  *)
C37_Witness ==
  /\ ev.type = "end" /\ ev.how = "errorLost"
  /\ ev.f \notin runningFeeds
  /\ InFlightCount(ev.f) = 0

-----------------------------------------------------------------------------
(* Claims about the removal of a feed, checked under Spec *)

(* deleteFeed(f) has returned true: the route is in unscheduleFeed, or     *)
(* unscheduleFeed has completed                                            *)
Deleted(f) ==
  \/ f \in unscheduled
  \/ \E t \in Running : t.k = "delete" /\ t.f = f /\ t.pc \in {"schedRead", "schedWrite"}

(* C38: after deleteFeed(id) has returned true the feed is not in the      *)
(* feeds collection, whatever the runs in flight write.                    *)
C38_DeletedStaysDeleted == \A f \in FeedIds : Deleted(f) => f \notin DOMAIN feedsFile

(* no store write has failed, the removal of a feed has completed, nothing *)
(* of the feed is in progress, and the feed is in the feeds collection     *)
(* with a status that a run of the feed has written                        *)
C38_Witness ==
  /\ failLeft = MaxFail
  /\ \E f \in unscheduled :
       /\ f \in DOMAIN feedsFile
       /\ feedsFile[f].status # "idle"
       /\ \A t \in Running : t.f # f

-----------------------------------------------------------------------------
(* Claims about the counters over the runs of a feed, checked under        *)
(* SpecSuccessive                                                          *)

(* the new items that a run has counted: newItems, once the feed is parsed *)
CountedBy(t) == IF t.pc = "parse" THEN <<>> ELSE t.batch

RECURSIVE CountedIn(_, _)
CountedIn(S, url) ==
  IF S = {} THEN 0
  ELSE LET t == CHOOSE x \in S : TRUE IN
       CopiesIn(t, tasks) * Cardinality({j \in DOMAIN CountedBy(t) : CountedBy(t)[j] = url})
         + CountedIn(S \ {t}, url)

(* how many times the article url was among the new items that the runs    *)
(* added to totalScraped and to the feed's totalFound                      *)
CountedTimes(url) == CountedIn({t \in Running : t.k = "pipe"}, url)

(* C39: over the runs of a feed every article url is added to the          *)
(* items-seen counter and to the found-count of the feed at most once.     *)
C39_CountedOnce == \A url \in 1..MaxItems : CountedTimes(url) <= 1

(* two runs have ended; the fetch of article 1 failed in the first, and    *)
(* both runs counted it                                                    *)
C39_Witness ==
  /\ \A t \in Running : t.pc = "done"
  /\ CountedTimes(1) = 2
  /\ \E t \in Running : 1 \in DOMAIN t.out /\ t.batch[1] = 1 /\ t.out[1] = "failed"
  /\ statsFile.totalScraped > MaxItems

-----------------------------------------------------------------------------
(* Claims about the read of an empty file, checked under SpecFile *)

(* C40: a readJSON that reads a live file with nothing in it (empty, or    *)
(* whitespace only) returns the default value of the collection, whatever  *)
(* the backups hold and whether or not they can be read; it leaves the     *)
(* live file and the backups as they are.                                  *)
C40_EmptyFileReadsDefault ==
  [][(rd' # rd /\ rd'.pre.kind = "blank" /\ rd'.err = "none") =>
       /\ rd'.kind = "default"
       /\ rd'.val = DefaultValue
       /\ live' = live /\ live'.kind = "blank"
       /\ backups' = backups]_vars

(* a blank file has just been read as the default while a backup that      *)
(* parses, with another value, exists                                      *)
C40_Witness ==
  /\ rd.kind = "default"
  /\ rd.pre.kind = "blank"
  /\ rd.err = "none"
  /\ live.kind = "blank"
  /\ \E t \in ParsableBackups : ParseJSON(backups[t]) # DefaultValue

=============================================================================
